---- MODULE Spec2Model ----
(***************************************************************************)
(* Model of src/server.py: the Anthropic <-> OpenAI (LiteLLM) protocol     *)
(* translator.                                                             *)
(*                                                                         *)
(*   handle_streaming              the streaming transcoder                *)
(*   convert_anthropic_to_litellm  the request mapper                      *)
(*   convert_litellm_to_anthropic  the response mapper                     *)
(*                                                                         *)
(* Encoding of Python values.  A str is a sequence of atoms; an atom is    *)
(* either one whitespace character (" " or "\n") or a run of characters    *)
(* that neither starts nor ends with whitespace, so that concatenation is  *)
(* \o and str.strip() removes the whitespace atoms at both ends.  A field  *)
(* of a downstream chunk that holds at most one atom is written as that    *)
(* atom ("" is the empty str), with the values None (JSON null), Absent    *)
(* (no such key or attribute) and Bad (a JSON value that is not a string)  *)
(* beside it.  Downstream chunks are decoded JSON, so every leaf of a      *)
(* chunk is a JSON value and json.dumps of it cannot fail.                 *)
(***************************************************************************)
EXTENDS Integers, Sequences, FiniteSets, TLC

VARIABLES
    task,       \* which entry point this behaviour exercises
    pc,         \* position of the running call
    model,      \* original_request.model of the call (a str)
    ts,         \* handle_streaming: its local variables (TranscoderState)
    out,        \* handle_streaming: the events yielded so far
    consumed,   \* handle_streaming: the chunks read from response_generator
    unread,     \* handle_streaming: the chunks response_generator still
                \* held when the generator returned
    req,        \* convert_anthropic_to_litellm: the request converted
    lreq,       \* convert_anthropic_to_litellm: the dict returned
    lresp,      \* convert_litellm_to_anthropic: the downstream response
    resp,       \* convert_litellm_to_anthropic: MessagesResponse or error
    USE_OPENAI_MODELS,  \* module-level flag
    BIG_MODEL,          \* module-level: the model that replaces sonnet
    SMALL_MODEL,        \* module-level: the model that replaces haiku
    ANTHROPIC_API_KEY,  \* module-level, read from the environment
    OPENAI_API_KEY,     \* module-level, read from the environment
    REQUEST_HISTORY,    \* module-level list of request records
    arg,        \* parse_tool_result_content: its argument
    ret,        \* parse_tool_result_content: its return value
    peer        \* a second handle_streaming invocation, in flight at
                \* the same time: its position, model, locals and events

vars == <<task, pc, model, ts, out, consumed, unread, req, lreq, lresp,
          resp, USE_OPENAI_MODELS, BIG_MODEL, SMALL_MODEL, ANTHROPIC_API_KEY,
          OPENAI_API_KEY, REQUEST_HISTORY, arg, ret, peer>>

\* the module-level settings beside USE_OPENAI_MODELS
settings == <<BIG_MODEL, SMALL_MODEL, ANTHROPIC_API_KEY, OPENAI_API_KEY>>

-----------------------------------------------------------------------------
(* Python values *)

None == "None"
Absent == "Absent"
Bad == "Bad"

\* BIG_MODEL = "o3-mini" and SMALL_MODEL = "claude-3-haiku-20240307"
DefaultBig == <<"o3-", "mini">>

DefaultSmall == <<"claude-", "3-", "haiku", "-20240307">>

\* tool_index = None, and a tool-call delta whose index is null
NoIndex == -1

\* isinstance(x, str) for an atom-valued field
IsStr(x) == x \notin {None, Absent, Bad}

\* the str value of an atom-valued field that is a str
Str(x) == IF x = "" THEN <<>> ELSE <<x>>

IsSpace(a) == a \in {" ", "\n"}

RECURSIVE LStrip(_)
LStrip(s) == IF s # <<>> /\ IsSpace(Head(s)) THEN LStrip(Tail(s)) ELSE s

RECURSIVE RStrip(_)
RStrip(s) ==
    IF s # <<>> /\ IsSpace(s[Len(s)]) THEN RStrip(SubSeq(s, 1, Len(s) - 1))
    ELSE s

\* str.strip()
Strip(s) == RStrip(LStrip(s))

\* str.startswith(prefix) for a one-atom prefix
StartsWith(s, p) == s # <<>> /\ Head(s) = p

\* clean_model: the model name with its provider prefix removed
CleanModel(m) ==
    IF StartsWith(m, "anthropic/") THEN Tail(m)
    ELSE IF StartsWith(m, "openai/") THEN Tail(m)
    ELSE m

-----------------------------------------------------------------------------
(* Bounds *)

\* chunks read from one downstream stream
MaxChunks == 3

\* content blocks in one message of a request
MaxBlocks == 2

\* tool calls in one downstream response
MaxToolCalls == 2

-----------------------------------------------------------------------------
(* handle_streaming: events *)

BaseEvent ==
    [type |-> "", index |-> -1, block_type |-> "", delta_type |-> "",
     text |-> <<>>, id |-> "", name |-> "", model |-> <<>>,
     stop_reason |-> "", error_message |-> <<>>, output_tokens |-> 0]

MessageStart(m) ==
    [BaseEvent EXCEPT !.type = "message_start", !.model = m]

TextBlockStart ==
    [BaseEvent EXCEPT !.type = "content_block_start", !.index = 0,
                      !.block_type = "text"]

Ping == [BaseEvent EXCEPT !.type = "ping"]

TextDelta(t) ==
    [BaseEvent EXCEPT !.type = "content_block_delta", !.index = 0,
                      !.delta_type = "text_delta", !.text = t]

ToolBlockStart(i, tool_id, name) ==
    [BaseEvent EXCEPT !.type = "content_block_start", !.index = i,
                      !.block_type = "tool_use", !.id = tool_id,
                      !.name = name]

InputJsonDelta(i, args_json) ==
    [BaseEvent EXCEPT !.type = "content_block_delta", !.index = i,
                      !.delta_type = "input_json_delta", !.text = args_json]

BlockStop(i) ==
    [BaseEvent EXCEPT !.type = "content_block_stop", !.index = i]

MessageDelta(stop_reason, tokens) ==
    [BaseEvent EXCEPT !.type = "message_delta", !.stop_reason = stop_reason,
                      !.output_tokens = tokens]

ErrorDelta(user_message) ==
    [BaseEvent EXCEPT !.type = "message_delta", !.stop_reason = "error",
                      !.error_message = user_message]

MessageStop == [BaseEvent EXCEPT !.type = "message_stop"]

Done == [BaseEvent EXCEPT !.type = "[DONE]"]

-----------------------------------------------------------------------------
(* handle_streaming: the local variables and the per-chunk body *)

InitTs ==
    [tool_index |-> NoIndex,
     tool_content |-> <<>>,
     accumulated_text |-> <<>>,
     text_sent |-> FALSE,
     text_block_closed |-> FALSE,
     input_tokens |-> 0,
     output_tokens |-> 0,
     has_sent_stop_reason |-> FALSE,
     last_tool_index |-> 0,
     anthropic_tool_index |-> 0]

\* a frame is the pair of the local variables and the events yielded
Emit(f, e) == [f EXCEPT !.out = Append(@, e)]

\* "if hasattr(chunk, 'usage') and chunk.usage is not None"
UsageStep(f, c) ==
    IF c.has_usage
    THEN [f EXCEPT !.ts.input_tokens = c.prompt_tokens,
                   !.ts.output_tokens = c.completion_tokens]
    ELSE f

\* TextStep, but each delta carries the whole accumulated text
TextStepSendsAccumulated(f, c) ==
    IF c.content # None /\ c.content # ""
    THEN LET f1 == [f EXCEPT !.ts.accumulated_text = @ \o Str(c.content)]
         IN  IF f1.ts.tool_index = NoIndex /\ ~f1.ts.text_block_closed
             THEN Emit([f1 EXCEPT !.ts.text_sent = TRUE],
                       TextDelta(f1.ts.accumulated_text))
             ELSE f1
    ELSE f

\* TextStep, but text is sent whether or not block 0 was closed
TextStepIgnoresClosed(f, c) ==
    IF c.content # None /\ c.content # ""
    THEN LET f1 == [f EXCEPT !.ts.accumulated_text = @ \o Str(c.content)]
         IN  IF f1.ts.tool_index = NoIndex
             THEN Emit([f1 EXCEPT !.ts.text_sent = TRUE],
                       TextDelta(Str(c.content)))
             ELSE f1
    ELSE f

\* "Accumulate text content"
TextStep(f, c) ==
    IF c.content # None /\ c.content # ""
    THEN LET f1 == [f EXCEPT !.ts.accumulated_text = @ \o Str(c.content)]
         IN  IF f1.ts.tool_index = NoIndex /\ ~f1.ts.text_block_closed
             THEN Emit([f1 EXCEPT !.ts.text_sent = TRUE],
                       TextDelta(Str(c.content)))
             ELSE f1
    ELSE f

\* FirstToolStep, but a text block that never carried text is left open
FirstToolStepLeavesEmptyOpen(f) ==
    IF f.ts.tool_index = NoIndex /\ f.ts.text_sent /\ ~f.ts.text_block_closed
    THEN Emit([f EXCEPT !.ts.text_block_closed = TRUE], BlockStop(0))
    ELSE f

\* FirstToolStep, but the text block is left open
FirstToolStepKeepsOpen(f) == f

\* "First tool call we've seen - need to handle text properly"
FirstToolStep(f) ==
    IF f.ts.tool_index = NoIndex
    THEN IF f.ts.text_sent /\ ~f.ts.text_block_closed
         THEN Emit([f EXCEPT !.ts.text_block_closed = TRUE], BlockStop(0))
         ELSE IF f.ts.accumulated_text # <<>> /\ ~f.ts.text_sent
                 /\ ~f.ts.text_block_closed
         THEN Emit(Emit([f EXCEPT !.ts.text_sent = TRUE,
                                  !.ts.text_block_closed = TRUE],
                        TextDelta(f.ts.accumulated_text)),
                   BlockStop(0))
         ELSE IF ~f.ts.text_block_closed
         THEN Emit([f EXCEPT !.ts.text_block_closed = TRUE], BlockStop(0))
         ELSE f
    ELSE f

\* "Get the index of this tool call"
CurrentIndex(tool_call) ==
    IF tool_call.has_index THEN tool_call.index ELSE 0

\* tool_call.get('id', f"toolu_{uuid...}"): the default only when absent
ToolId(tool_call) ==
    IF tool_call.id = Absent THEN "toolu_generated" ELSE tool_call.id

\* function.get('name', '')
ToolName(tool_call) ==
    IF tool_call.name = Absent THEN "" ELSE tool_call.name

\* "Extract function arguments"
Arguments(tool_call) ==
    IF tool_call.arguments = Absent THEN "" ELSE tool_call.arguments

\* json.loads(arguments) returns: the fragment is a whole JSON document
ParsesAsJson(arguments) == arguments = "{}"

\* ToolCallStep, but a new block takes the downstream call index
ToolCallStepDownstreamIndex(f, tool_call) ==
    LET current_index == CurrentIndex(tool_call)
        f1 == IF f.ts.tool_index = NoIndex \/ current_index # f.ts.tool_index
              THEN Emit([f EXCEPT !.ts.tool_index = current_index,
                                  !.ts.last_tool_index = @ + 1,
                                  !.ts.anthropic_tool_index =
                                      current_index + 1,
                                  !.ts.tool_content = <<>>],
                        ToolBlockStart(current_index + 1,
                                       ToolId(tool_call),
                                       ToolName(tool_call)))
              ELSE f
        arguments == Arguments(tool_call)
    IN  IF arguments # None /\ arguments # ""
        THEN Emit([f1 EXCEPT !.ts.tool_content = @ \o Str(arguments)],
                  InputJsonDelta(f1.ts.anthropic_tool_index, Str(arguments)))
        ELSE f1

\* ToolCallStep, but a fragment that json.loads rejects is not sent
ToolCallStepDropsFragments(f, tool_call) ==
    LET current_index == CurrentIndex(tool_call)
        f1 == IF f.ts.tool_index = NoIndex \/ current_index # f.ts.tool_index
              THEN Emit([f EXCEPT !.ts.tool_index = current_index,
                                  !.ts.last_tool_index = @ + 1,
                                  !.ts.anthropic_tool_index =
                                      f.ts.last_tool_index + 1,
                                  !.ts.tool_content = <<>>],
                        ToolBlockStart(f.ts.last_tool_index + 1,
                                       ToolId(tool_call),
                                       ToolName(tool_call)))
              ELSE f
        arguments == Arguments(tool_call)
    IN  IF arguments # None /\ arguments # "" /\ ParsesAsJson(arguments)
        THEN Emit([f1 EXCEPT !.ts.tool_content = @ \o Str(arguments)],
                  InputJsonDelta(f1.ts.anthropic_tool_index, Str(arguments)))
        ELSE f1

\* ToolCallStep, but the block of the previous call is closed when a new
\* call opens
ToolCallStepClosesPrevious(f, tool_call) ==
    LET current_index == CurrentIndex(tool_call)
        f0 == IF f.ts.last_tool_index >= 1
              THEN Emit(f, BlockStop(f.ts.last_tool_index)) ELSE f
        f1 == IF f.ts.tool_index = NoIndex \/ current_index # f.ts.tool_index
              THEN Emit([f0 EXCEPT !.ts.tool_index = current_index,
                                   !.ts.last_tool_index = @ + 1,
                                   !.ts.anthropic_tool_index =
                                       f.ts.last_tool_index + 1,
                                   !.ts.tool_content = <<>>],
                        ToolBlockStart(f.ts.last_tool_index + 1,
                                       ToolId(tool_call),
                                       ToolName(tool_call)))
              ELSE f
        arguments == Arguments(tool_call)
    IN  IF arguments # None /\ arguments # ""
        THEN Emit([f1 EXCEPT !.ts.tool_content = @ \o Str(arguments)],
                  InputJsonDelta(f1.ts.anthropic_tool_index, Str(arguments)))
        ELSE f1

\* the body of "for tool_call in delta_tool_calls"
ToolCallStep(f, tool_call) ==
    LET current_index == CurrentIndex(tool_call)
        f1 == IF f.ts.tool_index = NoIndex \/ current_index # f.ts.tool_index
              THEN Emit([f EXCEPT !.ts.tool_index = current_index,
                                  !.ts.last_tool_index = @ + 1,
                                  !.ts.anthropic_tool_index =
                                      f.ts.last_tool_index + 1,
                                  !.ts.tool_content = <<>>],
                        ToolBlockStart(f.ts.last_tool_index + 1,
                                       ToolId(tool_call),
                                       ToolName(tool_call)))
              ELSE f
        arguments == Arguments(tool_call)
        \* "try: json.loads(arguments)": the same string on both branches
        args_json == IF ParsesAsJson(arguments) THEN arguments
                     ELSE arguments
    IN  IF arguments # None /\ arguments # ""
        THEN Emit([f1 EXCEPT !.ts.tool_content = @ \o Str(args_json)],
                  InputJsonDelta(f1.ts.anthropic_tool_index, Str(args_json)))
        ELSE f1

RECURSIVE ToolCallLoop(_, _)
ToolCallLoop(f, delta_tool_calls) ==
    IF delta_tool_calls = <<>> THEN f
    ELSE ToolCallLoop(ToolCallStep(f, Head(delta_tool_calls)),
                      Tail(delta_tool_calls))

\* "Process tool calls if any"
ToolCallsStep(f, c) ==
    IF c.tool_calls # <<>>
    THEN ToolCallLoop(FirstToolStep(f), c.tool_calls)
    ELSE f

\* StreamStopReason, but without the tool_calls case
StreamStopReasonNoToolCalls(finish_reason) ==
    IF finish_reason = "length" THEN "max_tokens" ELSE "end_turn"

\* "Map OpenAI finish_reason to Anthropic stop_reason" (streaming)
StreamStopReason(finish_reason) ==
    IF finish_reason = "length" THEN "max_tokens"
    ELSE IF finish_reason = "tool_calls" THEN "tool_use"
    ELSE IF finish_reason = "stop" THEN "end_turn"
    ELSE "end_turn"

RECURSIVE EmitToolStops(_, _, _)
\* "for i in range(1, last_tool_index + 1)"
EmitToolStops(f, i, last) ==
    IF i > last THEN f ELSE EmitToolStops(Emit(f, BlockStop(i)), i + 1, last)

\* "Close any open tool call blocks"
CloseToolBlocks(f) ==
    IF f.ts.tool_index # NoIndex
    THEN EmitToolStops(f, 1, f.ts.last_tool_index)
    ELSE f

\* "If we accumulated text but never sent or closed text block, do it now"
CloseTextBlock(f) ==
    IF ~f.ts.text_block_closed
    THEN LET f1 == IF f.ts.accumulated_text # <<>> /\ ~f.ts.text_sent
                   THEN Emit(f, TextDelta(f.ts.accumulated_text))
                   ELSE f
         IN  Emit(f1, BlockStop(0))
    ELSE f

\* truthiness of finish_reason
Truthy(x) == x \notin {None, Absent, ""}

\* FinishStep, but has_sent_stop_reason is never set
FinishStepForgetsFlag(f, c) ==
    IF Truthy(c.finish_reason) /\ ~f.ts.has_sent_stop_reason
    THEN LET f2 == CloseTextBlock(CloseToolBlocks(f))
             f3 == Emit(f2, MessageDelta(StreamStopReason(c.finish_reason),
                                         f2.ts.output_tokens))
         IN  Emit(Emit(f3, MessageStop), Done)
    ELSE f

\* "Process finish_reason - end the streaming response"
FinishStep(f, c) ==
    IF Truthy(c.finish_reason) /\ ~f.ts.has_sent_stop_reason
    THEN LET f1 == [f EXCEPT !.ts.has_sent_stop_reason = TRUE]
             f2 == CloseTextBlock(CloseToolBlocks(f1))
             f3 == Emit(f2, MessageDelta(StreamStopReason(c.finish_reason),
                                         f2.ts.output_tokens))
         IN  Emit(Emit(f3, MessageStop), Done)
    ELSE f

\* the chunk makes the body of the per-chunk try raise: len() of a null
\* choices, or accumulated_text += a content that is not a str
ChunkRaises(c) ==
    \/ c.choices = "null"
    \/ c.choices = "one" /\ c.content = Bad

\* ProcessChunk, but a chunk that raises ends the stream like a failure
\* of the chunk source
ProcessChunkStopsOnError(f, c) ==
    LET f1 == UsageStep(f, c)
    IN  IF ChunkRaises(c)
        THEN Emit(Emit(Emit([f1 EXCEPT !.ts.has_sent_stop_reason = TRUE],
                            ErrorDelta(<<"Error in streaming:">>)),
                       MessageStop), Done)
        ELSE IF c.choices = "empty" THEN f1
        ELSE FinishStep(ToolCallsStep(TextStep(f1, c), c), c)

\* the body of "async for chunk in response_generator", with its
\* "except Exception: continue"
ProcessChunk(f, c) ==
    LET f1 == UsageStep(f, c)
    IN  IF ChunkRaises(c) THEN f1
        ELSE IF c.choices = "empty" THEN f1
        ELSE FinishStep(ToolCallsStep(TextStep(f1, c), c), c)

\* "If we didn't get a finish reason, close any open blocks"
EndOfStream(f) ==
    IF ~f.ts.has_sent_stop_reason
    THEN LET f1 == Emit(CloseToolBlocks(f), BlockStop(0))
             f2 == Emit(f1, MessageDelta("end_turn", f1.ts.output_tokens))
         IN  Emit(Emit(f2, MessageStop), Done)
    ELSE f

-----------------------------------------------------------------------------
(* handle_streaming: the chunks a downstream stream may deliver *)

\* a tool-call delta that carries its call index
ToolDelta(idx, id, name, arguments) ==
    [has_index |-> TRUE, index |-> idx, id |-> id, name |-> name,
     arguments |-> arguments]

\* the first delta of call idx: id, name and the first argument fragment
HeaderDelta(idx) ==
    ToolDelta(idx, IF idx = 0 THEN "t1" ELSE "t2", "search", "{\"q\":")

\* a later delta of call idx: id and name null, the next argument fragment
FragmentDelta(idx) == ToolDelta(idx, None, None, "\"x\"}")

ToolDeltas ==
    {HeaderDelta(0), HeaderDelta(1), FragmentDelta(0), FragmentDelta(1),
     \* id and name with no argument fragment yet
     ToolDelta(0, "t1", "search", ""),
     \* a mapping without id and without function name
     ToolDelta(0, Absent, Absent, "{}"),
     \* the call index is null
     ToolDelta(NoIndex, "t3", "search", "{}"),
     \* the call indices are sparse
     ToolDelta(5, "t5", "lookup", "{}"),
     \* the call index is missing
     [has_index |-> FALSE, index |-> 0, id |-> "t1", name |-> "search",
      arguments |-> "{\"q\":"]}

BaseChunk ==
    [choices |-> "one", content |-> None, tool_calls |-> <<>>,
     finish_reason |-> None, has_usage |-> FALSE, prompt_tokens |-> 0,
     completion_tokens |-> 0]

TextChunk(t) == [BaseChunk EXCEPT !.content = t]

ToolChunk(d) == [BaseChunk EXCEPT !.tool_calls = <<d>>]

FinishChunk(r) == [BaseChunk EXCEPT !.finish_reason = r]

WithUsage(c, p, n) ==
    [c EXCEPT !.has_usage = TRUE, !.prompt_tokens = p,
              !.completion_tokens = n]

FinishReasons == {"stop", "length", "tool_calls", "content_filter"}

\* chunks whose processing raises inside the per-chunk try
MalformedChunks ==
    {WithUsage([BaseChunk EXCEPT !.choices = "null"], 1, 2),
     [BaseChunk EXCEPT !.content = Bad, !.tool_calls = <<HeaderDelta(0)>>,
                       !.finish_reason = "stop"]}

Chunks ==
    {TextChunk(t) : t \in {"Hi", " there", ""}}
    \cup {ToolChunk(d) : d \in ToolDeltas}
    \cup {[BaseChunk EXCEPT !.content = "Hi",
                            !.tool_calls = <<HeaderDelta(0)>>],
          [BaseChunk EXCEPT !.tool_calls = <<HeaderDelta(0), HeaderDelta(1)>>],
          WithUsage([BaseChunk EXCEPT !.choices = "empty"], 5, 7)}
    \cup MalformedChunks
    \cup {FinishChunk(r) : r \in FinishReasons}
    \cup {WithUsage([BaseChunk EXCEPT !.content = " there",
                                      !.finish_reason = "stop"], 5, 9),
          [BaseChunk EXCEPT !.tool_calls = <<FragmentDelta(0)>>,
                            !.finish_reason = "tool_calls"]}

\* str(e) of the exception the chunk source raises: its text and the
\* keywords of the classification that occur in its lower-cased form
ErrorTexts ==
    {[raw |-> "boom", words |-> {}],
     [raw |-> "server overloaded, connection reset",
      words |-> {"overloaded", "connection"}]}

Contains(error_str, w) == w \in error_str.words

\* "Determine a user-friendly error message" (streaming)
StreamUserMessage(e) ==
    IF Contains(e, "overloaded")
    THEN <<"Anthropic API is currently overloaded. Please try again in a few minutes.">>
    ELSE IF Contains(e, "rate limit") \/ Contains(e, "rate_limit")
            \/ Contains(e, "429")
    THEN <<"Rate limit exceeded. Please try again in a few minutes.">>
    ELSE IF Contains(e, "timeout") \/ Contains(e, "timed out")
    THEN <<"The request timed out. The API server may be experiencing high load. Please try again.">>
    ELSE IF Contains(e, "connectivity") \/ Contains(e, "connection")
    THEN <<"Connection issue detected. Please check your internet connection and try again.">>
    ELSE IF Contains(e, "auth") \/ Contains(e, "authentication")
            \/ (Contains(e, "key") /\ Contains(e, "invalid"))
    THEN <<"Authentication error. Please check your API key configuration.">>
    ELSE <<"Error in streaming:", " ", e.raw>>

\* FatalError, but without the final [DONE] marker
FatalErrorNoSentinel(f, e) ==
    Emit(Emit(f, ErrorDelta(StreamUserMessage(e))), MessageStop)

\* the outer "except Exception as e" of handle_streaming
FatalError(f, e) ==
    Emit(Emit(Emit(f, ErrorDelta(StreamUserMessage(e))), MessageStop), Done)

-----------------------------------------------------------------------------
(* handle_streaming: the actions *)

\* the resolved model names a request may carry
Models ==
    {<<"openai/", "gpt-4o">>,
     <<"anthropic/", "claude-", "3-", "haiku", "-20240307">>}

NoValue == "none"

InitStream ==
    /\ task = "stream"
    /\ pc = "start"
    /\ model \in Models
    /\ ts = InitTs
    /\ out = <<>>
    /\ consumed = <<>>
    /\ unread = <<>>
    /\ req = NoValue /\ lreq = NoValue /\ lresp = NoValue /\ resp = NoValue
    /\ USE_OPENAI_MODELS = TRUE
    /\ BIG_MODEL = DefaultBig /\ SMALL_MODEL = DefaultSmall
    /\ ANTHROPIC_API_KEY = None /\ OPENAI_API_KEY = None
    /\ REQUEST_HISTORY = <<>>
    /\ arg = NoValue /\ ret = NoValue /\ peer = NoValue

\* StartEvents, but the ping is sent before the text block is opened
StartEventsPingEarly(m) == <<MessageStart(m), Ping, TextBlockStart>>

\* the events yielded before "async for chunk in response_generator"
StartEvents(m) == <<MessageStart(m), TextBlockStart, Ping>>

\* message_start, content_block_start(0), ping, then the locals are set
StartStream ==
    /\ task = "stream" /\ pc = "start"
    /\ out' = StartEvents(model)
    /\ ts' = InitTs
    /\ pc' = "loop"
    /\ UNCHANGED <<task, model, consumed, req, lreq, lresp, resp,
                   USE_OPENAI_MODELS, settings, REQUEST_HISTORY, arg, ret, peer,
                   unread>>

\* one iteration of "async for chunk in response_generator"
HandleChunk ==
    /\ task = "stream" /\ pc = "loop"
    /\ Len(consumed) < MaxChunks
    /\ \E c \in Chunks :
        LET f == ProcessChunk([ts |-> ts, out |-> out], c)
        IN  /\ ts' = f.ts
            /\ out' = f.out
            /\ consumed' = Append(consumed, c)
            /\ pc' = IF f.ts.has_sent_stop_reason THEN "returned" ELSE "loop"
    /\ UNCHANGED <<task, model, req, lreq, lresp, resp, USE_OPENAI_MODELS,
                   settings, REQUEST_HISTORY, arg, ret, peer,
                   unread>>

\* response_generator is exhausted
SourceEnd ==
    /\ task = "stream" /\ pc = "loop"
    /\ LET f == EndOfStream([ts |-> ts, out |-> out])
       IN  ts' = f.ts /\ out' = f.out
    /\ pc' = "exhausted"
    /\ UNCHANGED <<task, model, consumed, req, lreq, lresp, resp,
                   USE_OPENAI_MODELS, settings, REQUEST_HISTORY, arg, ret, peer,
                   unread>>

\* response_generator raises
SourceFail ==
    /\ task = "stream" /\ pc = "loop"
    /\ \E e \in ErrorTexts :
        out' = FatalError([ts |-> ts, out |-> out], e).out
    /\ pc' = "failed"
    /\ UNCHANGED <<task, model, ts, consumed, req, lreq, lresp, resp,
                   USE_OPENAI_MODELS, settings, REQUEST_HISTORY, arg, ret, peer,
                   unread>>

\* "return" after the closing sequence: a chunk that response_generator
\* still holds is never read
LeaveUnread ==
    /\ task = "stream" /\ pc = "returned"
    /\ Len(consumed) + Len(unread) < MaxChunks
    /\ \E c \in Chunks : unread' = Append(unread, c)
    /\ UNCHANGED <<task, pc, model, ts, out, consumed, req, lreq, lresp,
                   resp, USE_OPENAI_MODELS, settings,
                   REQUEST_HISTORY, arg, ret, peer>>

NextStream ==
    StartStream \/ HandleChunk \/ SourceEnd \/ SourceFail \/ LeaveUnread

SpecStream == InitStream /\ [][NextStream]_vars

-----------------------------------------------------------------------------
(* handle_streaming: two invocations in flight at the same time *)

\* chunks read by each of two concurrent streams
MaxPairChunks == 2

\* invocation 1 lives in pc, model, ts, out and consumed; invocation 2 in
\* peer, which also keeps the order in which chunks arrived at the two
Invocation(i) ==
    IF i = 1
    THEN [pc |-> pc, model |-> model, ts |-> ts, out |-> out,
          consumed |-> consumed]
    ELSE [pc |-> peer.pc, model |-> peer.model, ts |-> peer.ts,
          out |-> peer.out, consumed |-> peer.consumed]

\* OwnLocals, but the locals are one module-level set used by both
SharedLocals(i) == ts

\* the local variables of invocation i
OwnLocals(i) == Invocation(i).ts

\* invocation i becomes inv; chunk says whether a chunk arrived at it
Store(i, inv, chunk) ==
    LET order == IF chunk THEN Append(peer.arrivals, i) ELSE peer.arrivals
    IN  IF i = 1
        THEN /\ pc' = inv.pc /\ ts' = inv.ts /\ out' = inv.out
             /\ consumed' = inv.consumed
             /\ peer' = [peer EXCEPT !.arrivals = order]
        ELSE /\ peer' = [peer EXCEPT !.pc = inv.pc, !.ts = inv.ts,
                                     !.out = inv.out,
                                     !.consumed = inv.consumed,
                                     !.arrivals = order]
             /\ UNCHANGED <<pc, ts, out, consumed>>

\* the chunks the two downstream streams deliver
PairChunks ==
    {TextChunk("Hi"), ToolChunk(HeaderDelta(0)), ToolChunk(FragmentDelta(0)),
     WithUsage(FinishChunk("tool_calls"), 5, 9)}

\* str(e) of the exception a chunk source raises
PairError == [raw |-> "boom", words |-> {}]

\* the model of the request served by invocation 2
PeerModel == <<"anthropic/", "claude-", "3-", "haiku", "-20240307">>

InitStreams ==
    /\ task = "streams"
    /\ pc = "start"
    /\ model \in Models
    /\ ts = InitTs
    /\ out = <<>>
    /\ consumed = <<>>
    /\ unread = <<>>
    /\ req = NoValue /\ lreq = NoValue /\ lresp = NoValue /\ resp = NoValue
    /\ USE_OPENAI_MODELS = TRUE
    /\ BIG_MODEL = DefaultBig /\ SMALL_MODEL = DefaultSmall
    /\ ANTHROPIC_API_KEY = None /\ OPENAI_API_KEY = None
    /\ REQUEST_HISTORY = <<>>
    /\ arg = NoValue /\ ret = NoValue
    /\ peer = [pc |-> "start", model |-> PeerModel, ts |-> InitTs,
               out |-> <<>>, consumed |-> <<>>, arrivals |-> <<>>]

\* one of the invocations yields its first three events
StartEither ==
    /\ task = "streams"
    /\ \E i \in {1, 2} :
        LET inv == Invocation(i)
        IN  /\ inv.pc = "start"
            /\ Store(i, [inv EXCEPT !.pc = "loop", !.ts = InitTs,
                                    !.out = StartEvents(inv.model)], FALSE)
    /\ UNCHANGED <<task, model, req, lreq, lresp, resp, USE_OPENAI_MODELS,
                   settings, REQUEST_HISTORY, arg, ret,
                   unread>>

\* a chunk arrives at one of the invocations
ChunkEither ==
    /\ task = "streams"
    /\ \E i \in {1, 2}, c \in PairChunks :
        LET inv == Invocation(i)
            f == ProcessChunk([ts |-> OwnLocals(i), out |-> inv.out], c)
        IN  /\ inv.pc = "loop"
            /\ Len(inv.consumed) < MaxPairChunks
            /\ Store(i, [inv EXCEPT
                            !.ts = f.ts, !.out = f.out,
                            !.consumed = Append(@, c),
                            !.pc = IF f.ts.has_sent_stop_reason
                                   THEN "returned" ELSE "loop"], TRUE)
    /\ UNCHANGED <<task, model, req, lreq, lresp, resp, USE_OPENAI_MODELS,
                   settings, REQUEST_HISTORY, arg, ret,
                   unread>>

\* the chunk source of one of the invocations is exhausted
EndEither ==
    /\ task = "streams"
    /\ \E i \in {1, 2} :
        LET inv == Invocation(i)
            f == EndOfStream([ts |-> OwnLocals(i), out |-> inv.out])
        IN  /\ inv.pc = "loop"
            /\ Store(i, [inv EXCEPT !.ts = f.ts, !.out = f.out,
                                    !.pc = "exhausted"], FALSE)
    /\ UNCHANGED <<task, model, req, lreq, lresp, resp, USE_OPENAI_MODELS,
                   settings, REQUEST_HISTORY, arg, ret,
                   unread>>

\* the chunk source of one of the invocations raises
FailEither ==
    /\ task = "streams"
    /\ \E i \in {1, 2} :
        LET inv == Invocation(i)
            f == FatalError([ts |-> OwnLocals(i), out |-> inv.out],
                            PairError)
        IN  /\ inv.pc = "loop"
            /\ Store(i, [inv EXCEPT !.out = f.out, !.pc = "failed"], FALSE)
    /\ UNCHANGED <<task, model, req, lreq, lresp, resp, USE_OPENAI_MODELS,
                   settings, REQUEST_HISTORY, arg, ret,
                   unread>>

NextStreams == StartEither \/ ChunkEither \/ EndEither \/ FailEither

SpecStreams == InitStreams /\ [][NextStreams]_vars

-----------------------------------------------------------------------------
(* convert_anthropic_to_litellm: requests *)

\* the downstream provider's ceiling on max_tokens
MaxTokensCap == 16384

Min(a, b) == IF a <= b THEN a ELSE b

\* the value of a tool_result block's content field
StrContent(t) == [kind |-> "str", text |-> t, items |-> <<>>]

ListContent(items) == [kind |-> "list", text |-> <<>>, items |-> items]

\* a dict content: {"type": "text", "text": t} ("text_block"), or a dict
\* whose only key is t ("dict")
DictContent(kind, t) == [kind |-> kind, text |-> t, items |-> <<>>]

\* a content that is neither None, a str, a list nor a dict: a number
OtherContent(t) == [kind |-> "other", text |-> t, items |-> <<>>]

\* an item of a list content: a {"type": "text"} dict ("text_block"), a
\* dict with a text key and another type ("text_dict"), a dict without a
\* text key ("dict", text is its only key), a plain str ("str")
Item(kind, t) == [kind |-> kind, text |-> t]

\* json.dumps of a dict whose only key is k
JsonDumps(k) == <<"{\"">> \o k \o <<"\":", " ", "1}">>

\* str() of a dict: its Python repr
PyRepr(content) ==
    IF content.kind = "text_block"
    THEN <<"{'type':", " ", "'text',", " ", "'text':", " ", "'">>
         \o content.text \o <<"'}">>
    ELSE <<"{'">> \o content.text \o <<"':", " ", "1}">>

\* str(block.content) of a content that is neither a str nor a list
PyStr(content) ==
    IF content.kind = "none" THEN <<"None">>
    ELSE IF content.kind = "other" THEN content.text
    ELSE PyRepr(content)

NoContent == [kind |-> "none", text |-> <<>>, items |-> <<>>]

BaseBlock ==
    [type |-> "", text |-> <<>>, id |-> "", name |-> "",
     tool_use_id |-> "", content |-> NoContent]

TextBlock(t) == [BaseBlock EXCEPT !.type = "text", !.text = t]

ImageBlock == [BaseBlock EXCEPT !.type = "image"]

ToolUseBlock == [BaseBlock EXCEPT !.type = "tool_use", !.id = "t1",
                                  !.name = "search"]

ToolResultBlock(id, content) ==
    [BaseBlock EXCEPT !.type = "tool_result", !.tool_use_id = id,
                      !.content = content]

\* "Handle different formats of tool result content" (user messages)
RECURSIVE ResultItems(_)
ResultItems(items) ==
    IF items = <<>> THEN <<>>
    ELSE LET content_block == Head(items)
             rest == ResultItems(Tail(items))
         IN  IF content_block.kind \in {"text_block", "text_dict"}
             THEN content_block.text \o <<"\n">> \o rest
             ELSE IF content_block.kind = "dict"
             THEN JsonDumps(content_block.text) \o <<"\n">> \o rest
             ELSE rest

ResultContent(content) ==
    IF content.kind = "str" THEN content.text
    ELSE IF content.kind = "list" THEN ResultItems(content.items)
    ELSE IF content.kind = "text_block" THEN content.text
    ELSE IF content.kind = "dict" THEN JsonDumps(content.text)
    ELSE PyStr(content)

\* "Extract all text parts and concatenate them"
RECURSIVE TextContent(_)
TextContent(content) ==
    IF content = <<>> THEN <<>>
    ELSE LET block == Head(content)
             rest == TextContent(Tail(content))
         IN  IF block.type = "text" THEN block.text \o <<"\n">> \o rest
             ELSE IF block.type = "tool_result"
             THEN <<"Tool result for", " ", block.tool_use_id, ":", "\n">>
                  \o ResultContent(block.content) \o <<"\n">> \o rest
             ELSE rest

\* a downstream message whose content is a str
StrMessage(role, t) == [role |-> role, kind |-> "str", text |-> t,
                        parts |-> <<>>]

\* a downstream message whose content is a list of parts
ListMessage(role, parts) == [role |-> role, kind |-> "list", text |-> <<>>,
                             parts |-> parts]

\* "Regular handling for other message types": one part per block
ProcessedBlock(block) ==
    IF block.type = "tool_result"
    THEN [block EXCEPT !.content =
            IF block.content.kind = "str"
            THEN ListContent(<<Item("text_block", block.content.text)>>)
            ELSE IF block.content.kind = "list" THEN block.content
            ELSE ListContent(<<Item("text_block", PyStr(block.content))>>)]
    ELSE block

RECURSIVE ProcessedContent(_)
ProcessedContent(content) ==
    IF content = <<>> THEN <<>>
    ELSE <<ProcessedBlock(Head(content))>> \o ProcessedContent(Tail(content))

HasToolResult(content) ==
    \E i \in 1..Len(content) : content[i].type = "tool_result"

\* ConvertMessage, but the tool-result text is not stripped
ConvertMessageNoStrip(msg) ==
    IF msg.kind = "str" THEN StrMessage(msg.role, msg.text)
    ELSE IF msg.role = "user" /\ HasToolResult(msg.blocks)
    THEN StrMessage("user", TextContent(msg.blocks))
    ELSE ListMessage(msg.role, ProcessedContent(msg.blocks))

\* the body of "for idx, msg in enumerate(anthropic_request.messages)"
ConvertMessage(msg) ==
    IF msg.kind = "str" THEN StrMessage(msg.role, msg.text)
    ELSE IF msg.role = "user" /\ HasToolResult(msg.blocks)
    THEN StrMessage("user", Strip(TextContent(msg.blocks)))
    ELSE ListMessage(msg.role, ProcessedContent(msg.blocks))

RECURSIVE ConvertMessages(_)
ConvertMessages(messages) ==
    IF messages = <<>> THEN <<>>
    ELSE <<ConvertMessage(Head(messages))>> \o ConvertMessages(Tail(messages))

RECURSIVE SystemText(_)
\* "system_text += block.text + '\n\n'"
SystemText(blocks) ==
    IF blocks = <<>> THEN <<>>
    ELSE Head(blocks) \o <<"\n", "\n">> \o SystemText(Tail(blocks))

\* "Add system message if present"
SystemMessages(system) ==
    IF system.kind = "str" /\ system.text # <<>>
    THEN <<StrMessage("system", system.text)>>
    ELSE IF system.kind = "list" /\ system.blocks # <<>>
            /\ SystemText(system.blocks) # <<>>
    THEN <<StrMessage("system", Strip(SystemText(system.blocks)))>>
    ELSE <<>>

\* CappedMaxTokens, but the ceiling is never applied
CappedMaxTokensUncapped(r, use_openai) == r.max_tokens

\* "Cap max_tokens for OpenAI models to their limit of 16384"
CappedMaxTokens(r, use_openai) ==
    IF StartsWith(r.model, "openai/") \/ use_openai
    THEN Min(r.max_tokens, MaxTokensCap)
    ELSE r.max_tokens

\* "x in clean_model" for a substring x that is one atom of the name
HasSubstring(m, x) == \E i \in 1..Len(m) : m[i] = x

\* ReasoningEffort, but the default is added for every model
ReasoningEffortAlwaysHigh(r) ==
    IF r.reasoning_effort \notin {None, ""} THEN r.reasoning_effort
    ELSE "high"

\* "Add reasoning_effort parameter if provided in the request", "Otherwise,
\* add default reasoning_effort for OpenAI reasoning models"; Absent when
\* the key is not set
ReasoningEffort(r) ==
    IF r.reasoning_effort \notin {None, ""} THEN r.reasoning_effort
    ELSE IF HasSubstring(CleanModel(r.model), "o3-")
            \/ HasSubstring(CleanModel(r.model), "o1")
    THEN "high"
    ELSE Absent

\* the tool_choice of a request: None (given FALSE) or a dict, which is
\* empty or has other keys beside the type and name it may have
ToolChoiceDict(empty, type, name) ==
    [given |-> TRUE, empty |-> empty, type |-> type, name |-> name]

NoToolChoice ==
    [given |-> FALSE, empty |-> TRUE, type |-> Absent, name |-> Absent]

\* the tool_choice of the downstream request: kind "absent" when the key
\* is not set, "auto", "any", or "function" with the name of the function
DownstreamChoice(kind, name) == [kind |-> kind, name |-> name]

\* ToolChoice, but a directive that is not understood is dropped
ToolChoiceDropsUnknown(tool_choice) ==
    IF ~tool_choice.given \/ tool_choice.empty
    THEN DownstreamChoice("absent", Absent)
    ELSE IF tool_choice.type = "auto" THEN DownstreamChoice("auto", Absent)
    ELSE IF tool_choice.type = "any" THEN DownstreamChoice("any", Absent)
    ELSE IF tool_choice.type = "tool" /\ tool_choice.name # Absent
    THEN DownstreamChoice("function", tool_choice.name)
    ELSE DownstreamChoice("absent", Absent)

\* "Convert tool_choice to OpenAI format if present"
ToolChoice(tool_choice) ==
    IF ~tool_choice.given \/ tool_choice.empty
    THEN DownstreamChoice("absent", Absent)
    ELSE IF tool_choice.type = "auto" THEN DownstreamChoice("auto", Absent)
    ELSE IF tool_choice.type = "any" THEN DownstreamChoice("any", Absent)
    ELSE IF tool_choice.type = "tool" /\ tool_choice.name # Absent
    THEN DownstreamChoice("function", tool_choice.name)
    ELSE DownstreamChoice("auto", Absent)

convert_anthropic_to_litellm(r, use_openai) ==
    [model |-> r.model,
     messages |-> SystemMessages(r.system) \o ConvertMessages(r.messages),
     max_tokens |-> CappedMaxTokens(r, use_openai),
     reasoning_effort |-> ReasoningEffort(r),
     tool_choice |-> ToolChoice(r.tool_choice)]

-----------------------------------------------------------------------------
(* convert_anthropic_to_litellm: the requests converted *)

Texts == {<<"a">>, <<>>, <<" ", "b", "\n">>}

ResultContents ==
    {StrContent(<<"42">>), StrContent(<<>>), NoContent,
     ListContent(<<Item("text_block", <<"x">>), Item("text_block", <<"y">>)>>),
     ListContent(<<Item("str", <<"z">>)>>),
     ListContent(<<Item("text_dict", <<"w">>), Item("dict", <<"k">>)>>),
     ListContent(<<>>),
     DictContent("text_block", <<"v">>),
     DictContent("dict", <<"k">>),
     OtherContent(<<"7">>)}

Blocks ==
    {TextBlock(t) : t \in Texts}
    \cup {ImageBlock, ToolUseBlock}
    \cup {ToolResultBlock("t1", c) : c \in ResultContents}

RECURSIVE SeqsUpTo(_, _)
\* the sequences over S of length at most n
SeqsUpTo(S, n) ==
    IF n = 0 THEN {<<>>}
    ELSE LET shorter == SeqsUpTo(S, n - 1)
         IN  shorter \cup {Append(q, x) : q \in shorter, x \in S}

Roles == {"user", "assistant"}

Messages ==
    {[role |-> r, kind |-> "str", text |-> t, blocks |-> <<>>] :
        r \in Roles, t \in Texts}
    \cup {[role |-> r, kind |-> "blocks", text |-> <<>>, blocks |-> b] :
        r \in Roles, b \in SeqsUpTo(Blocks, MaxBlocks)}

NoSystem == [kind |-> "none", text |-> <<>>, blocks |-> <<>>]

Systems ==
    {NoSystem}
    \cup {[kind |-> "str", text |-> t, blocks |-> <<>>] : t \in Texts}
    \cup {[kind |-> "list", text |-> <<>>, blocks |-> b] :
            b \in SeqsUpTo(Texts, 2)}

MaxTokensValues == {1, 4096, 16383, 16384, 16385, 100000}

RequestModels == Models \cup {<<"openai/", "o3-", "mini">>}

UserText == [role |-> "user", kind |-> "str", text |-> <<"a">>,
             blocks |-> <<>>]

ScenarioC ==
    [role |-> "user", kind |-> "blocks", text |-> <<>>,
     blocks |-> <<ToolResultBlock("t1", StrContent(<<"42">>))>>]

\* the values of MessagesRequest.reasoning_effort
ReasoningEfforts == {None, "", "low", "medium", "high"}

\* model names with and without the substrings "o3-" and "o1"
ReasoningModels ==
    RequestModels
    \cup {<<"openai/", "o1">>, <<"openai/", "o1", "-preview">>,
          <<"openai/", "o3">>, <<"o3-", "mini">>,
          <<"openai/", "gpt-4", "o1", "-x">>}

\* the values of MessagesRequest.tool_choice
ToolChoices ==
    {NoToolChoice, ToolChoiceDict(TRUE, Absent, Absent)}
    \cup {ToolChoiceDict(FALSE, t, n) :
            t \in {"auto", "any", "tool", "none", None, Absent},
            n \in {"search", None, Absent}}

Requests ==
    \* one message of every shape
    {[model |-> <<"openai/", "gpt-4o">>, max_tokens |-> 4096,
      system |-> NoSystem, messages |-> <<m>>, reasoning_effort |-> None,
      tool_choice |-> NoToolChoice] : m \in Messages}
    \* every system prompt, before a conversation of two messages
    \cup {[model |-> <<"openai/", "gpt-4o">>, max_tokens |-> 4096,
           system |-> s, messages |-> <<UserText, ScenarioC>>,
           reasoning_effort |-> None, tool_choice |-> NoToolChoice] :
            s \in Systems}
    \* every max_tokens for every model
    \cup {[model |-> m, max_tokens |-> n, system |-> NoSystem,
           messages |-> <<UserText>>, reasoning_effort |-> None,
           tool_choice |-> NoToolChoice] :
            m \in RequestModels, n \in MaxTokensValues}
    \* every reasoning_effort for every model
    \cup {[model |-> m, max_tokens |-> 4096, system |-> NoSystem,
           messages |-> <<UserText>>, reasoning_effort |-> e,
           tool_choice |-> NoToolChoice] :
            m \in ReasoningModels, e \in ReasoningEfforts}
    \* every tool_choice
    \cup {[model |-> <<"openai/", "gpt-4o">>, max_tokens |-> 4096,
           system |-> NoSystem, messages |-> <<UserText>>,
           reasoning_effort |-> None, tool_choice |-> c] :
            c \in ToolChoices}

InitRequest ==
    /\ task = "request"
    /\ pc = "start"
    /\ model = <<>>
    /\ ts = InitTs
    /\ out = <<>>
    /\ consumed = <<>>
    /\ unread = <<>>
    /\ req = NoValue /\ lreq = NoValue /\ lresp = NoValue /\ resp = NoValue
    /\ USE_OPENAI_MODELS = TRUE
    /\ BIG_MODEL = DefaultBig /\ SMALL_MODEL = DefaultSmall
    /\ ANTHROPIC_API_KEY = None /\ OPENAI_API_KEY = None
    /\ REQUEST_HISTORY = <<>>
    /\ arg = NoValue /\ ret = NoValue /\ peer = NoValue

\* one call of convert_anthropic_to_litellm
ConvertRequest ==
    /\ task = "request" /\ pc = "start"
    /\ \E r \in Requests :
        /\ req' = r
        /\ model' = r.model
        /\ lreq' = convert_anthropic_to_litellm(r, USE_OPENAI_MODELS)
    /\ pc' = "returned"
    /\ UNCHANGED <<task, ts, out, consumed, lresp, resp, USE_OPENAI_MODELS,
                   settings, REQUEST_HISTORY, arg, ret, peer,
                   unread>>

NextRequest == ConvertRequest

SpecRequest == InitRequest /\ [][NextRequest]_vars

-----------------------------------------------------------------------------
(* convert_litellm_to_anthropic *)

\* "Check if this is a Claude model": clean_model.startswith("claude-")
IsClaudeModel(m) == StartsWith(CleanModel(m), "claude-")

\* the argument string of a downstream tool call: json says how
\* json.loads takes it ("object", "other": valid JSON that is no object,
\* "invalid"); a null arguments field has json "null"
Args(raw, json) == [raw |-> raw, json |-> json]

ToolCall(id, name, arguments) ==
    [id |-> id, name |-> name, arguments |-> arguments]

\* the input of a tool_use block
ParsedInput(arguments) == [kind |-> "parsed", raw |-> arguments.raw]

RawInput(arguments) == [kind |-> "raw", raw |-> arguments.raw]

\* "Convert string arguments to dict if needed"
ToolInput(arguments) ==
    IF arguments.json = "invalid" THEN RawInput(arguments)
    ELSE ParsedInput(arguments)

\* tool_call.get("id", f"tool_{uuid...}"): the default only when absent
ResponseToolId(tool_call) ==
    IF tool_call.id = Absent THEN "tool_generated" ELSE tool_call.id

ResponseToolName(tool_call) ==
    IF tool_call.name = Absent THEN "" ELSE tool_call.name

BaseContentBlock ==
    [type |-> "", text |-> <<>>, id |-> "", name |-> "",
     input |-> [kind |-> "", raw |-> ""], input_json |-> ""]

ResponseText(t) == [BaseContentBlock EXCEPT !.type = "text", !.text = t]

\* the tool_use block of one tool call
ToolUse(tool_call) ==
    [BaseContentBlock EXCEPT
        !.type = "tool_use",
        !.id = ResponseToolId(tool_call),
        !.name = ResponseToolName(tool_call),
        !.input = ToolInput(tool_call.arguments),
        !.input_json = tool_call.arguments.json]

RECURSIVE ToolUseBlocks(_)
ToolUseBlocks(tool_calls) ==
    IF tool_calls = <<>> THEN <<>>
    ELSE <<ToolUse(Head(tool_calls))>> \o ToolUseBlocks(Tail(tool_calls))

\* arguments_str: json.dumps(json.loads(arguments), indent=2), or the
\* string itself when it does not parse
ArgumentsStr(arguments) ==
    IF arguments.json = "invalid" THEN <<arguments.raw>>
    ELSE IF arguments.json = "null" THEN <<"null">>
    ELSE <<"indent2(", arguments.raw, ")">>

\* f"{name}" of a name that may be None
NameStr(tool_call) ==
    IF ResponseToolName(tool_call) = "" THEN <<>>
    ELSE <<ResponseToolName(tool_call)>>

RECURSIVE ToolLines(_)
\* "Tool: {name}\nArguments: {arguments_str}\n\n" per tool call
ToolLines(tool_calls) ==
    IF tool_calls = <<>> THEN <<>>
    ELSE <<"Tool:", " ">> \o NameStr(Head(tool_calls))
         \o <<"\n", "Arguments:", " ">>
         \o ArgumentsStr(Head(tool_calls).arguments)
         \o <<"\n", "\n">> \o ToolLines(Tail(tool_calls))

ToolText(tool_calls) ==
    <<"\n", "\n", "Tool usage:", "\n">> \o ToolLines(tool_calls)

\* AppendToolText, but the tool text always gets a block of its own
AppendToolTextNewBlock(content, tool_text) ==
    Append(content, ResponseText(tool_text))

\* "Add or append tool text to content"
AppendToolText(content, tool_text) ==
    IF content # <<>> /\ content[1].type = "text"
    THEN [content EXCEPT ![1].text = @ \o tool_text]
    ELSE Append(content, ResponseText(tool_text))

\* "Map OpenAI finish_reason to Anthropic stop_reason"
StopReason(finish_reason) ==
    IF finish_reason = "stop" THEN "end_turn"
    ELSE IF finish_reason = "length" THEN "max_tokens"
    ELSE IF finish_reason = "tool_calls" THEN "tool_use"
    ELSE "end_turn"

\* the fields read from the downstream response, for either shape
\* (a ModelResponse object, or a dict); raises says that the extraction
\* raised: choices[0].finish_reason of a choice object without that
\* attribute, choices[0] of an empty list in the dict shape
Extract(r) ==
    IF r.shape = "typed"
    THEN [raises |-> r.choices = "one" /\ r.finish_reason = Absent,
          content_text |-> IF r.choices = "one" /\ r.content # Absent
                           THEN r.content ELSE "",
          tool_calls |-> IF r.choices = "one" THEN r.tool_calls ELSE <<>>,
          finish_reason |-> IF r.choices = "one" THEN r.finish_reason
                            ELSE "stop"]
    ELSE [raises |-> r.choices = "empty",
          content_text |-> IF r.choices = "one" /\ r.content # Absent
                           THEN r.content ELSE "",
          tool_calls |-> IF r.choices = "one" THEN r.tool_calls ELSE <<>>,
          finish_reason |-> IF r.choices = "one"
                            THEN (IF r.finish_reason = Absent THEN "stop"
                                  ELSE r.finish_reason)
                            ELSE "stop"]

\* ResponseContent, but without "Make sure content is never empty"
ResponseContentMayBeEmpty(x, m) ==
    LET text == IF x.content_text # None /\ x.content_text # ""
                THEN <<ResponseText(Str(x.content_text))>> ELSE <<>>
    IN  IF x.tool_calls # <<>> /\ IsClaudeModel(m)
        THEN text \o ToolUseBlocks(x.tool_calls)
        ELSE IF x.tool_calls # <<>> /\ ~IsClaudeModel(m)
        THEN AppendToolText(text, ToolText(x.tool_calls))
        ELSE text

\* "Create content list for Anthropic format"
ResponseContent(x, m) ==
    LET text == IF x.content_text # None /\ x.content_text # ""
                THEN <<ResponseText(Str(x.content_text))>> ELSE <<>>
        blocks == IF x.tool_calls # <<>> /\ IsClaudeModel(m)
                  THEN text \o ToolUseBlocks(x.tool_calls)
                  ELSE IF x.tool_calls # <<>> /\ ~IsClaudeModel(m)
                  THEN AppendToolText(text, ToolText(x.tool_calls))
                  ELSE text
    IN  \* "Make sure content is never empty"
        IF blocks = <<>> THEN <<ResponseText(<<>>)>> ELSE blocks

\* MessagesResponse(...) validates its fields: a tool_use block needs a
\* str id, a str name and a dict input
ValidBlock(b) ==
    b.type = "tool_use" =>
        /\ b.id # None
        /\ b.name # None
        /\ b.input_json \in {"object", "invalid"}

ValidContent(content) ==
    \A i \in 1..Len(content) : ValidBlock(content[i])

\* ResponseUserMessage, but the authentication class is tried first
ResponseUserMessageAuthFirst(e) ==
    IF Contains(e, "auth") \/ Contains(e, "authentication")
       \/ (Contains(e, "key") /\ Contains(e, "invalid"))
    THEN <<"Authentication error. Please check your API key configuration.">>
    ELSE IF Contains(e, "overloaded")
    THEN <<"Anthropic API is currently overloaded. Please try again in a few minutes.">>
    ELSE IF Contains(e, "rate limit") \/ Contains(e, "rate_limit")
            \/ Contains(e, "429")
    THEN <<"Rate limit exceeded. Please try again in a few minutes.">>
    ELSE IF Contains(e, "timeout") \/ Contains(e, "timed out")
    THEN <<"The request timed out. The API server may be experiencing high load. Please try again.">>
    ELSE IF Contains(e, "connectivity") \/ Contains(e, "connection")
    THEN <<"Connection issue detected. Please check your internet connection and try again.">>
    ELSE <<"Error:", " ", e.raw>>

\* "Check for specific error cases and provide more user-friendly
\* messages" (response mapper)
ResponseUserMessage(e) ==
    IF Contains(e, "overloaded")
    THEN <<"Anthropic API is currently overloaded. Please try again in a few minutes.">>
    ELSE IF Contains(e, "rate limit") \/ Contains(e, "rate_limit")
            \/ Contains(e, "429")
    THEN <<"Rate limit exceeded. Please try again in a few minutes.">>
    ELSE IF Contains(e, "timeout") \/ Contains(e, "timed out")
    THEN <<"The request timed out. The API server may be experiencing high load. Please try again.">>
    ELSE IF Contains(e, "connectivity") \/ Contains(e, "connection")
    THEN <<"Connection issue detected. Please check your internet connection and try again.">>
    ELSE IF Contains(e, "auth") \/ Contains(e, "authentication")
            \/ (Contains(e, "key") /\ Contains(e, "invalid"))
    THEN <<"Authentication error. Please check your API key configuration.">>
    ELSE <<"Error:", " ", e.raw>>

\* error_details.get('status_code', 500)
StatusCode(e) == IF e.has_status_code THEN e.status_code ELSE 500

\* the HTTPException of a call that raised: error is str(e) of the
\* exception caught, detail the user message
ErrorResponse(e) ==
    [status |-> "error", model |-> <<>>, content |-> <<>>,
     stop_reason |-> "", error |-> e.raw, exception |-> e,
     detail |-> ResponseUserMessage(e), status_code |-> StatusCode(e)]

\* e is the exception the try body raises, when it raises
convert_litellm_to_anthropic(r, m, e) ==
    LET x == Extract(r)
    IN  IF x.raises THEN ErrorResponse(e)
        ELSE LET content == ResponseContent(x, m)
             IN  IF ~ValidContent(content) THEN ErrorResponse(e)
                 ELSE [status |-> "ok", model |-> m, content |-> content,
                       stop_reason |-> StopReason(x.finish_reason),
                       error |-> ""]

\* "Maximum number of requests to keep in history"
MAX_HISTORY == 50

\* request_info of the except branch (its timestamp left out);
\* original_model is no local of the function, so "unknown"
ErrorInfo(e) ==
    [original_model |-> "unknown", mapped_model |-> "", num_messages |-> 0,
     num_tools |-> 0, stream |-> FALSE, status |-> "error", error |-> e]

\* "Record error in history"
RecordError(history, e) ==
    LET inserted == <<ErrorInfo(e)>> \o history
    IN  IF Len(inserted) > MAX_HISTORY
        THEN SubSeq(inserted, 1, MAX_HISTORY)
        ELSE inserted

-----------------------------------------------------------------------------
(* convert_litellm_to_anthropic: the downstream responses converted *)

ToolCalls ==
    {ToolCall("t1", "search", Args("{\"q\": \"x\"}", "object")),
     ToolCall("t2", "lookup", Args("{bad json", "invalid")),
     ToolCall(Absent, "search", Args("[1]", "other")),
     ToolCall(None, "search", Args("{}", "object"))}

ResponseFinishReasons == FinishReasons \cup {None, Absent}

\* an exception: str(e), the keywords of the classification that occur
\* in str(e).lower(), and its status_code attribute if it has one
Exception(raw, words, has_status_code, status_code) ==
    [raw |-> raw, words |-> words, has_status_code |-> has_status_code,
     status_code |-> status_code]

\* the exceptions the try body raises; str(e) of a validation error
\* quotes the rejected block, so it holds words of the downstream response
ResponseErrors ==
    {Exception("list index out of range", {}, FALSE, 0),
     Exception("1 validation error for MessagesResponse", {}, FALSE, 0),
     Exception("overloaded after timeout", {"overloaded", "timeout"},
               TRUE, 529),
     Exception("429 connection", {"429", "connection"}, TRUE, 429),
     Exception("timed out auth", {"timed out", "auth"}, FALSE, 0),
     Exception("connectivity invalid key",
               {"connectivity", "key", "invalid"}, FALSE, 0),
     Exception("invalid key", {"key", "invalid"}, FALSE, 0),
     Exception("key", {"key"}, FALSE, 0)}

Responses ==
    {[shape |-> sh, choices |-> "one", content |-> t, tool_calls |-> tc,
      finish_reason |-> fr] :
        sh \in {"typed", "mapping"}, t \in {None, "", "Hello", Absent},
        tc \in SeqsUpTo(ToolCalls, MaxToolCalls),
        fr \in ResponseFinishReasons}
    \cup {[shape |-> sh, choices |-> ch, content |-> None,
           tool_calls |-> <<>>, finish_reason |-> None] :
            sh \in {"typed", "mapping"}, ch \in {"empty", "missing"}}

InitResponse ==
    /\ task = "response"
    /\ pc = "start"
    /\ model \in Models
    /\ ts = InitTs
    /\ out = <<>>
    /\ consumed = <<>>
    /\ unread = <<>>
    /\ req = NoValue /\ lreq = NoValue /\ lresp = NoValue /\ resp = NoValue
    /\ USE_OPENAI_MODELS = TRUE
    /\ BIG_MODEL = DefaultBig /\ SMALL_MODEL = DefaultSmall
    /\ ANTHROPIC_API_KEY = None /\ OPENAI_API_KEY = None
    /\ REQUEST_HISTORY = <<>>
    /\ arg = NoValue /\ ret = NoValue /\ peer = NoValue

\* one call of convert_litellm_to_anthropic
ConvertResponse ==
    /\ task = "response" /\ pc = "start"
    /\ \E r \in Responses, e \in ResponseErrors :
        /\ lresp' = r
        /\ resp' = convert_litellm_to_anthropic(r, model, e)
        /\ pc' = IF resp'.status = "ok" THEN "returned" ELSE "raised"
        /\ REQUEST_HISTORY' =
                IF resp'.status = "ok" THEN REQUEST_HISTORY
                ELSE RecordError(REQUEST_HISTORY, resp'.error)
    /\ UNCHANGED <<task, model, ts, out, consumed, req, lreq,
                   USE_OPENAI_MODELS, settings, arg, ret, peer,
                   unread>>

NextResponse == ConvertResponse

SpecResponse == InitResponse /\ [][NextResponse]_vars

-----------------------------------------------------------------------------
(* parse_tool_result_content *)

\* items in one list content
MaxItems == 2

\* a {"type": "text"} dict whose text is None; as an item of a list, kind
\* "text_null"
NullTextContent == [kind |-> "text_null", text |-> <<>>, items |-> <<>>]

\* the call raised
Raised == [kind |-> "raised", text |-> <<>>, items |-> <<>>]

\* what one item adds to result; raises when the text of a
\* {"type": "text"} item is no str (None + "\n" is a TypeError)
ItemText(item) ==
    IF item.kind \in {"text_block", "text_dict", "str", "other"}
    THEN [raises |-> FALSE, text |-> item.text \o <<"\n">>]
    ELSE IF item.kind = "text_null"
    THEN [raises |-> TRUE, text |-> <<>>]
    ELSE [raises |-> FALSE, text |-> JsonDumps(item.text) \o <<"\n">>]

RECURSIVE ListText(_)
\* "for item in content": the result built, or the exception
ListText(items) ==
    IF items = <<>> THEN [raises |-> FALSE, text |-> <<>>]
    ELSE LET first == ItemText(Head(items))
             rest == ListText(Tail(items))
         IN  [raises |-> first.raises \/ rest.raises,
              text |-> first.text \o rest.text]

parse_tool_result_content(content) ==
    IF content.kind = "none" THEN StrContent(<<"No content provided">>)
    ELSE IF content.kind = "str" THEN content
    ELSE IF content.kind = "list"
    THEN LET result == ListText(content.items)
         IN  IF result.raises THEN Raised
             ELSE StrContent(Strip(result.text))
    ELSE IF content.kind = "text_block" THEN StrContent(content.text)
    ELSE IF content.kind = "text_null" THEN NoContent
    ELSE IF content.kind = "dict" THEN StrContent(JsonDumps(content.text))
    ELSE StrContent(PyStr(content))

\* the items of a list content
ContentItems ==
    {Item("text_block", <<"x">>), Item("text_block", <<" ", "b", "\n">>),
     Item("text_null", <<>>), Item("text_dict", <<"w">>),
     Item("dict", <<"k">>), Item("str", <<"z">>), Item("other", <<"7">>)}

\* the arguments parse_tool_result_content is called with
Contents ==
    {NoContent, NullTextContent, DictContent("dict", <<"k">>),
     OtherContent(<<"7">>)}
    \cup {StrContent(t) : t \in Texts}
    \cup {DictContent("text_block", t) : t \in Texts}
    \cup {ListContent(items) : items \in SeqsUpTo(ContentItems, MaxItems)}

InitNormalize ==
    /\ task = "normalize"
    /\ pc = "start"
    /\ model = <<>>
    /\ ts = InitTs
    /\ out = <<>>
    /\ consumed = <<>>
    /\ unread = <<>>
    /\ req = NoValue /\ lreq = NoValue /\ lresp = NoValue /\ resp = NoValue
    /\ USE_OPENAI_MODELS = TRUE
    /\ BIG_MODEL = DefaultBig /\ SMALL_MODEL = DefaultSmall
    /\ ANTHROPIC_API_KEY = None /\ OPENAI_API_KEY = None
    /\ REQUEST_HISTORY = <<>>
    /\ arg = NoValue /\ ret = NoValue /\ peer = NoValue

\* one call of parse_tool_result_content
ParseContent ==
    /\ task = "normalize" /\ pc = "start"
    /\ \E content \in Contents :
        /\ arg' = content
        /\ ret' = parse_tool_result_content(content)
        /\ pc' = IF ret' = Raised THEN "raised" ELSE "returned"
    /\ UNCHANGED <<task, model, ts, out, consumed, req, lreq, lresp, resp,
                   USE_OPENAI_MODELS, settings, REQUEST_HISTORY, peer,
                   unread>>

\* parse_tool_result_content called with the value it returned
ParseResult ==
    /\ task = "normalize" /\ pc = "returned"
    /\ arg' = ret
    /\ ret' = parse_tool_result_content(ret)
    /\ pc' = IF ret' = Raised THEN "raised again" ELSE "returned again"
    /\ UNCHANGED <<task, model, ts, out, consumed, req, lreq, lresp, resp,
                   USE_OPENAI_MODELS, settings, REQUEST_HISTORY, peer,
                   unread>>

NextNormalize == ParseContent \/ ParseResult

SpecNormalize == InitNormalize /\ [][NextNormalize]_vars

-----------------------------------------------------------------------------
(* validate_model, update_models *)

\* str.lower() of one atom of a model name
LowerAtom(a) ==
    IF a = "Claude-" THEN "claude-"
    ELSE IF a = "Haiku" THEN "haiku"
    ELSE IF a = "Sonnet" THEN "sonnet"
    ELSE a

\* "x in v.lower()" for a substring x that lies within one atom of v
InLower(x, v) == \E i \in 1..Len(v) : LowerAtom(v[i]) = x

\* m.startswith("claude")
StartsWithClaude(m) == StartsWith(m, "claude-")

\* TokenCountRequest_validate_model, but the anthropic/ prefix is kept
TokenCountRequestKeepsPrefix(original_model, use_openai, big, small) ==
    IF use_openai
    THEN LET v == original_model
         IN  IF InLower("haiku", v)
             THEN IF StartsWithClaude(small)
                  THEN IF ~StartsWith(original_model, "anthropic/")
                       THEN <<"anthropic/">> \o v ELSE original_model
                  ELSE <<"openai/">> \o small
             ELSE IF InLower("sonnet", v)
             THEN IF StartsWithClaude(big)
                  THEN IF ~StartsWith(original_model, "anthropic/")
                       THEN <<"anthropic/">> \o v ELSE original_model
                  ELSE <<"openai/">> \o big
             ELSE IF ~StartsWith(v, "openai/") /\ ~StartsWith(v, "anthropic/")
             THEN <<"openai/">> \o v
             ELSE v
    ELSE IF ~StartsWith(original_model, "anthropic/")
         THEN <<"anthropic/">> \o original_model
         ELSE original_model

\* MessagesRequest.validate_model
MessagesRequest_validate_model(original_model, use_openai, big, small) ==
    IF use_openai
    THEN \* "Remove anthropic/ prefix if it exists"
         LET v == IF StartsWith(original_model, "anthropic/")
                  THEN Tail(original_model) ELSE original_model
         IN  \* "Swap Haiku with small model"
             IF InLower("haiku", v)
             THEN IF StartsWithClaude(small)
                  THEN IF ~StartsWith(original_model, "anthropic/")
                       THEN <<"anthropic/">> \o v ELSE original_model
                  ELSE <<"openai/">> \o small
             \* "Swap any Sonnet model with big model"
             ELSE IF InLower("sonnet", v)
             THEN IF StartsWithClaude(big)
                  THEN IF ~StartsWith(original_model, "anthropic/")
                       THEN <<"anthropic/">> \o v ELSE original_model
                  ELSE <<"openai/">> \o big
             \* "Keep the model as is but add openai/ prefix"
             ELSE IF ~StartsWith(v, "openai/") /\ ~StartsWith(v, "anthropic/")
             THEN <<"openai/">> \o v
             ELSE v
    ELSE \* "Original behavior - ensure anthropic/ prefix"
         IF ~StartsWith(original_model, "anthropic/")
         THEN <<"anthropic/">> \o original_model
         ELSE original_model

\* TokenCountRequest.validate_model, the second copy
TokenCountRequest_validate_model(original_model, use_openai, big, small) ==
    IF use_openai
    THEN LET v == IF StartsWith(original_model, "anthropic/")
                  THEN Tail(original_model) ELSE original_model
         IN  IF InLower("haiku", v)
             THEN IF StartsWithClaude(small)
                  THEN IF ~StartsWith(original_model, "anthropic/")
                       THEN <<"anthropic/">> \o v ELSE original_model
                  ELSE <<"openai/">> \o small
             ELSE IF InLower("sonnet", v)
             THEN IF StartsWithClaude(big)
                  THEN IF ~StartsWith(original_model, "anthropic/")
                       THEN <<"anthropic/">> \o v ELSE original_model
                  ELSE <<"openai/">> \o big
             ELSE IF ~StartsWith(v, "openai/") /\ ~StartsWith(v, "anthropic/")
             THEN <<"openai/">> \o v
             ELSE v
    ELSE IF ~StartsWith(original_model, "anthropic/")
         THEN <<"anthropic/">> \o original_model
         ELSE original_model

\* UseOpenAIModels, but a Claude model is recognised by its first
\* characters only
UseOpenAIModelsByPrefix(big, small) ==
    ~(StartsWithClaude(big) /\ StartsWithClaude(small))

\* "Flag to enable model swapping between Anthropic and OpenAI": false
\* when "claude" is in both names, lower-cased
UseOpenAIModels(big, small) ==
    ~(InLower("claude-", big) /\ InLower("claude-", small))

\* "Check for appropriate API keys": the Anthropic key
MissingAnthropicKey(big_model, small_model, key) ==
    /\ InLower("claude-", big_model) \/ InLower("claude-", small_model)
    /\ ~Truthy(key)

\* "Check for appropriate API keys": the OpenAI key
MissingOpenAIKey(big_model, small_model, key) ==
    /\ \/ StartsWith(big_model, "openai/")
       \/ StartsWith(small_model, "openai/")
       \/ ~StartsWith(big_model, "anthropic/")
       \/ ~StartsWith(small_model, "anthropic/")
    /\ ~Truthy(key)

\* available_models of the UI
AvailableModels ==
    {<<"gpt-4o">>, <<"gpt-4o", "-mini">>, <<"gpt-3.5-turbo">>, <<"o1">>,
     <<"o3-", "mini">>, <<"claude-", "3-7-", "sonnet", "-20240229">>,
     <<"claude-", "3-", "haiku", "-20240307">>}

\* the form values update_models is called with: the UI's, and two that
\* only a hand-made POST sends
FormModels ==
    AvailableModels
    \cup {<<"anthropic/", "claude-", "3-", "haiku", "-20240307">>,
          <<"Claude-", "3-", "Opus">>}

\* the model names a client puts in a request
ModelNames ==
    {<<"claude-", "3-", "haiku", "-20240307">>,
     <<"anthropic/", "claude-", "3-", "haiku", "-20240307">>,
     <<"claude-", "3-7-", "sonnet", "-20240229">>,
     <<"anthropic/", "claude-", "3-7-", "sonnet", "-20240229">>,
     <<"claude-", "3-", "opus">>,
     <<"anthropic/", "claude-", "3-", "opus">>,
     <<"Claude-", "3-", "Haiku">>,
     <<"openai/", "gpt-4o">>,
     <<"gpt-4o">>,
     <<"anthropic/", "anthropic/", "claude-", "3-", "opus">>}

ApiKeys == {None, "sk-key"}

InitModels ==
    /\ task = "models"
    /\ pc = "idle"
    /\ model = <<>>
    /\ ts = InitTs
    /\ out = <<>>
    /\ consumed = <<>>
    /\ unread = <<>>
    /\ req = NoValue /\ lreq = NoValue /\ lresp = NoValue /\ resp = NoValue
    /\ BIG_MODEL = DefaultBig /\ SMALL_MODEL = DefaultSmall
    /\ USE_OPENAI_MODELS = UseOpenAIModels(DefaultBig, DefaultSmall)
    /\ ANTHROPIC_API_KEY \in ApiKeys /\ OPENAI_API_KEY \in ApiKeys
    /\ REQUEST_HISTORY = <<>>
    /\ arg = NoValue /\ ret = NoValue /\ peer = NoValue

\* POST /update_models
UpdateModels ==
    /\ task = "models"
    /\ \E big_model \in FormModels, small_model \in FormModels :
        LET rejected ==
                \/ MissingAnthropicKey(big_model, small_model,
                                       ANTHROPIC_API_KEY)
                \/ MissingOpenAIKey(big_model, small_model, OPENAI_API_KEY)
        IN  /\ BIG_MODEL' = IF rejected THEN BIG_MODEL ELSE big_model
            /\ SMALL_MODEL' = IF rejected THEN SMALL_MODEL ELSE small_model
            /\ USE_OPENAI_MODELS' =
                    IF rejected THEN USE_OPENAI_MODELS
                    ELSE UseOpenAIModels(big_model, small_model)
            /\ arg' = [call |-> "update_models", big_model |-> big_model,
                       small_model |-> small_model]
            /\ ret' = [status |-> IF rejected THEN "error" ELSE "success"]
    /\ pc' = "served"
    /\ UNCHANGED <<task, model, ts, out, consumed, unread, req, lreq,
                   lresp, resp, ANTHROPIC_API_KEY, OPENAI_API_KEY,
                   REQUEST_HISTORY, peer>>

\* POST /v1/messages: the body is parsed into a MessagesRequest
CreateMessage ==
    /\ task = "models"
    /\ \E name \in ModelNames :
        /\ arg' = [call |-> "messages", model |-> name]
        /\ ret' = [model |->
                    MessagesRequest_validate_model(
                        name, USE_OPENAI_MODELS, BIG_MODEL, SMALL_MODEL)]
    /\ pc' = "served"
    /\ UNCHANGED <<task, model, ts, out, consumed, unread, req, lreq,
                   lresp, resp, USE_OPENAI_MODELS, settings,
                   REQUEST_HISTORY, peer>>

\* POST /v1/messages/count_tokens: the body is parsed into a
\* TokenCountRequest, whose model goes into a MessagesRequest
CountTokens ==
    /\ task = "models"
    /\ \E name \in ModelNames :
        LET request_model ==
                TokenCountRequest_validate_model(
                    name, USE_OPENAI_MODELS, BIG_MODEL, SMALL_MODEL)
        IN  /\ arg' = [call |-> "count_tokens", model |-> name]
            /\ ret' = [model |->
                        MessagesRequest_validate_model(
                            request_model, USE_OPENAI_MODELS, BIG_MODEL,
                            SMALL_MODEL),
                       request_model |-> request_model]
    /\ pc' = "served"
    /\ UNCHANGED <<task, model, ts, out, consumed, unread, req, lreq,
                   lresp, resp, USE_OPENAI_MODELS, settings,
                   REQUEST_HISTORY, peer>>

NextModels == UpdateModels \/ CreateMessage \/ CountTokens

SpecModels == InitModels /\ [][NextModels]_vars

-----------------------------------------------------------------------------
(* every entry point *)

Init ==
    InitStream \/ InitStreams \/ InitRequest \/ InitResponse
    \/ InitNormalize \/ InitModels

Next ==
    NextStream \/ NextStreams \/ NextRequest \/ NextResponse
    \/ NextNormalize \/ NextModels

Spec == Init /\ [][Next]_vars

-----------------------------------------------------------------------------
(* Properties of handle_streaming *)

\* the positions of the events of one type
EventsOf(type) == {i \in 1..Len(out) : out[i].type = type}

Starts == EventsOf("content_block_start")

Stops == EventsOf("content_block_stop")

\* handle_streaming has left through one of its three exits
StreamEnded ==
    task = "stream" /\ pc \in {"returned", "exhausted", "failed"}

\* the events without the keep-alive ping and without the usage counts
NoPing(e) == e.type # "ping"

RECURSIVE WithoutTokens(_)
WithoutTokens(events) ==
    IF events = <<>> THEN <<>>
    ELSE <<[Head(events) EXCEPT !.output_tokens = 0]>>
         \o WithoutTokens(Tail(events))

Emitted == WithoutTokens(SelectSeq(out, NoPing))

\* C1: when the stream has ended, there are as many content_block_stop as
\* content_block_start events, every stop carries the index of an earlier
\* start, and every opened block is closed exactly once, after its start
\* and before message_stop.
C1_BlockClosure ==
    StreamEnded =>
        /\ Cardinality(Starts) = Cardinality(Stops)
        /\ \A j \in Stops :
            \E i \in Starts : i < j /\ out[i].index = out[j].index
        /\ \A i \in Starts :
            /\ Cardinality({j \in Stops : out[j].index = out[i].index}) = 1
            /\ \A j \in Stops : out[j].index = out[i].index =>
                /\ i < j
                /\ \A k \in EventsOf("message_stop") : j < k

\* C2: a stream that has ended has emitted exactly one message_delta, one
\* message_stop and one [DONE], as its last three events and in that
\* order; a stream that has not ended has emitted none of them.
C2_SingleTerminal ==
    task = "stream" =>
        LET n == IF StreamEnded THEN 1 ELSE 0
            last == Len(out)
        IN  /\ Cardinality(EventsOf("message_delta")) = n
            /\ Cardinality(EventsOf("message_stop")) = n
            /\ Cardinality(EventsOf("[DONE]")) = n
            /\ StreamEnded =>
                /\ out[last - 2].type = "message_delta"
                /\ out[last - 1].type = "message_stop"
                /\ out[last].type = "[DONE]"

\* C2 witness: a stream has ended after it consumed a malformed chunk and
\* two chunks that carry a finish reason
C2_Witness ==
    /\ StreamEnded
    /\ \E i \in 1..Len(consumed) : ChunkRaises(consumed[i])
    /\ Cardinality({i \in 1..Len(consumed) :
                        Truthy(consumed[i].finish_reason)}) >= 2

\* C3: on each of the three exits the last event is [DONE]; when the chunk
\* source raised, the stream ends with one message_delta of stop reason
\* error carrying a non-empty message, then message_stop, then [DONE], and
\* that message_delta is the only one with stop reason error.
C3_EndsWithSentinel ==
    StreamEnded =>
        LET last == Len(out)
        IN  /\ out[last] = Done
            /\ pc = "failed" =>
                /\ out[last - 2].type = "message_delta"
                /\ out[last - 2].stop_reason = "error"
                /\ out[last - 2].error_message # <<>>
                /\ out[last - 1] = MessageStop
                /\ Cardinality({i \in EventsOf("message_delta") :
                                    out[i].stop_reason = "error"}) = 1
            /\ pc # "failed" =>
                \A i \in 1..last : out[i].stop_reason # "error"

\* C3 witness: the chunk source raised after a tool block was opened
C3_Witness ==
    /\ task = "stream" /\ pc = "failed"
    /\ ts.last_tool_index >= 1

\* the finish-reason table of the specification
FinishReasonTable(finish_reason) ==
    CASE finish_reason = "stop" -> "end_turn"
      [] finish_reason = "length" -> "max_tokens"
      [] finish_reason = "tool_calls" -> "tool_use"
      [] OTHER -> "end_turn"

\* C4: the response mapper and the transcoder map the finish reason by the
\* same total table (stop -> end_turn, length -> max_tokens, tool_calls ->
\* tool_use, anything else -> end_turn): a returned Response carries the
\* table's value for the downstream finish reason, the message_delta of a
\* stream that ended on a finish reason carries the table's value for that
\* reason, a stream that ended without one carries end_turn, and no stop
\* reason on these paths lies outside {end_turn, max_tokens, tool_use}.
C4_FinishReasonTable ==
    /\ \A fr \in ResponseFinishReasons \cup {""} :
        StopReason(fr) = StreamStopReason(fr)
    /\ (task = "response" /\ pc = "returned") =>
        /\ resp.stop_reason =
            FinishReasonTable(IF lresp.choices = "one"
                              THEN lresp.finish_reason ELSE "stop")
        /\ resp.stop_reason \in {"end_turn", "max_tokens", "tool_use"}
    /\ (task = "stream" /\ pc \in {"returned", "exhausted"}) =>
        LET stop_reason == out[Len(out) - 2].stop_reason
        IN  /\ pc = "returned" =>
                stop_reason =
                    FinishReasonTable(consumed[Len(consumed)].finish_reason)
            /\ pc = "exhausted" => stop_reason = "end_turn"
            /\ stop_reason \in {"end_turn", "max_tokens", "tool_use"}

\* C4 witness: a stream ended on finish reason length with max_tokens
C4_Witness ==
    /\ task = "stream" /\ pc = "returned"
    /\ consumed[Len(consumed)].finish_reason = "length"
    /\ out[Len(out) - 2].stop_reason = "max_tokens"

\* a chunk that carries a non-empty text delta and nothing else
IsTextChunk(c) ==
    /\ c.choices = "one"
    /\ IsStr(c.content) /\ c.content # ""
    /\ c.tool_calls = <<>>
    /\ ~Truthy(c.finish_reason)

\* a chunk that carries a finish reason and nothing else
IsFinishChunk(c, finish_reason) ==
    /\ c.choices = "one"
    /\ c.content \in {None, ""}
    /\ c.tool_calls = <<>>
    /\ c.finish_reason = finish_reason

\* the stream consumed k >= 1 text chunks and then a finish chunk "stop"
PureTextStream ==
    /\ task = "stream" /\ pc = "returned"
    /\ Len(consumed) >= 2
    /\ \A i \in 1..(Len(consumed) - 1) : IsTextChunk(consumed[i])
    /\ IsFinishChunk(consumed[Len(consumed)], "stop")

RECURSIVE TextDeltasOf(_)
TextDeltasOf(chunks) ==
    IF chunks = <<>> THEN <<>>
    ELSE <<TextDelta(<<Head(chunks).content>>)>> \o TextDeltasOf(Tail(chunks))

\* C5: for k >= 1 text chunks followed by a finish chunk "stop" the events,
\* apart from the ping, are exactly message_start, content_block_start(0,
\* text), one text_delta on index 0 per chunk with that chunk's text in
\* arrival order, content_block_stop(0), message_delta(end_turn),
\* message_stop, [DONE].
C5_PureText ==
    PureTextStream =>
        Emitted =
            <<MessageStart(model), TextBlockStart>>
            \o TextDeltasOf(SubSeq(consumed, 1, Len(consumed) - 1))
            \o <<BlockStop(0), MessageDelta("end_turn", 0), MessageStop,
                 Done>>

\* C5 witness: Scenario A, "Hi" then " there" then stop
C5_Witness ==
    /\ PureTextStream
    /\ Len(consumed) = 3
    /\ consumed[1].content = "Hi"
    /\ consumed[2].content = " there"

\* a chunk that carries one tool-call delta with an argument fragment for
\* call index idx and nothing else
IsFragmentChunk(c, idx) ==
    /\ c.choices = "one"
    /\ c.content = None
    /\ ~Truthy(c.finish_reason)
    /\ Len(c.tool_calls) = 1
    /\ CurrentIndex(c.tool_calls[1]) = idx
    /\ IsStr(c.tool_calls[1].arguments) /\ c.tool_calls[1].arguments # ""

\* the stream consumed k >= 1 chunks of argument fragments of one call,
\* the first with id and name, and then a finish chunk "tool_calls"
ToolOnlyStream ==
    /\ task = "stream" /\ pc = "returned"
    /\ Len(consumed) >= 2
    /\ \E idx \in {0, 1} :
        \A i \in 1..(Len(consumed) - 1) : IsFragmentChunk(consumed[i], idx)
    /\ IsStr(consumed[1].tool_calls[1].id)
    /\ IsStr(consumed[1].tool_calls[1].name)
    /\ IsFinishChunk(consumed[Len(consumed)], "tool_calls")

RECURSIVE JsonDeltasOf(_)
JsonDeltasOf(chunks) ==
    IF chunks = <<>> THEN <<>>
    ELSE <<InputJsonDelta(1, <<Head(chunks).tool_calls[1].arguments>>)>>
         \o JsonDeltasOf(Tail(chunks))

\* C6: for tool-call deltas of one call and then finish reason tool_calls,
\* block 0 is opened and closed with no delta, block 1 is opened as
\* tool_use with the call's id and name, one input_json_delta on index 1
\* is emitted per fragment with the fragment verbatim, block 1 is closed,
\* and the message_delta has stop reason tool_use.
C6_ToolOnly ==
    ToolOnlyStream =>
        Emitted =
            <<MessageStart(model), TextBlockStart, BlockStop(0),
              ToolBlockStart(1, consumed[1].tool_calls[1].id,
                             consumed[1].tool_calls[1].name)>>
            \o JsonDeltasOf(SubSeq(consumed, 1, Len(consumed) - 1))
            \o <<BlockStop(1), MessageDelta("tool_use", 0), MessageStop,
                 Done>>

\* C6 witness: Scenario B, two fragments of call 0 then tool_calls
C6_Witness ==
    /\ ToolOnlyStream
    /\ Len(consumed) = 3
    /\ consumed[1].tool_calls[1] = HeaderDelta(0)
    /\ consumed[2].tool_calls[1] = FragmentDelta(0)

-----------------------------------------------------------------------------
(* Properties of convert_anthropic_to_litellm *)

RequestConverted == task = "request" /\ pc = "returned"

NonEmptyContent(m) ==
    IF m.kind = "str" THEN m.text # <<>> ELSE m.parts # <<>>

\* C7: every message of the downstream request has non-empty content:
\* never the empty string and never an empty list.
C7_NonEmptyContent ==
    RequestConverted =>
        \A i \in 1..Len(lreq.messages) : NonEmptyContent(lreq.messages[i])

\* the fragment a block of a tool-result user message contributes
Fragment(block) ==
    IF block.type = "text" THEN <<block.text>>
    ELSE IF block.type = "tool_result"
    THEN <<<<"Tool result for", " ", block.tool_use_id, ":", "\n">>
           \o ResultContent(block.content)>>
    ELSE <<>>

RECURSIVE Fragments(_)
Fragments(blocks) ==
    IF blocks = <<>> THEN <<>>
    ELSE Fragment(Head(blocks)) \o Fragments(Tail(blocks))

RECURSIVE JoinLines(_)
\* the fragments, in order, with a newline between them
JoinLines(fragments) ==
    IF fragments = <<>> THEN <<>>
    ELSE IF Len(fragments) = 1 THEN fragments[1]
    ELSE fragments[1] \o <<"\n">> \o JoinLines(Tail(fragments))

\* the messages the system prompt puts before the conversation
SystemCount == Len(lreq.messages) - Len(req.messages)

C9_MaxTokensCapped ==
    (RequestConverted /\ StartsWith(req.model, "openai/")) =>
        /\ req.max_tokens > 16384 => lreq.max_tokens = 16384
        /\ req.max_tokens <= 16384 => lreq.max_tokens = req.max_tokens

\* C9 witness: Scenario D, max_tokens 100000 became 16384
C9_Witness ==
    /\ RequestConverted /\ StartsWith(req.model, "openai/")
    /\ req.max_tokens = 100000
    /\ lreq.max_tokens = 16384

-----------------------------------------------------------------------------
(* Properties of convert_litellm_to_anthropic *)

ResponseReturned == task = "response" /\ pc = "returned"

\* C10: a returned Response has a non-empty content list, and when the
\* downstream response has no text (null or empty) and no tool calls the
\* content is exactly one text block with empty text.
C10_ContentNeverEmpty ==
    ResponseReturned =>
        /\ resp.content # <<>>
        /\ (lresp.content \in {None, ""} /\ lresp.tool_calls = <<>>) =>
            resp.content = <<ResponseText(<<>>)>>

\* C10 witness: a response with null text and no tool calls was converted
C10_Witness ==
    /\ ResponseReturned
    /\ lresp.choices = "one"
    /\ lresp.content = None
    /\ lresp.tool_calls = <<>>

\* the downstream response had a message, and reading it did not raise
ResponseExtracted ==
    /\ task = "response" /\ pc \in {"returned", "raised"}
    /\ lresp.choices = "one"
    /\ ~Extract(lresp).raises

\* the tool calls of the downstream response all carry a str id and name
WellFormedCalls ==
    \A i \in 1..Len(lresp.tool_calls) :
        /\ lresp.tool_calls[i].id # None
        /\ lresp.tool_calls[i].name # None

\* the optional leading text block of the Response
LeadingText ==
    IF lresp.content \in {None, "", Absent} THEN <<>>
    ELSE <<ResponseText(<<lresp.content>>)>>

\* C11: for a model that supports tool blocks, whatever the argument
\* strings of the tool calls are (a JSON object, JSON that is no object,
\* invalid JSON), the conversion returns a Response, and a tool call whose
\* argument string is invalid JSON yields a tool_use block whose input is
\* {"raw": the original string}.
C11_ArgumentsNeverRaise ==
    (ResponseExtracted /\ WellFormedCalls /\ IsClaudeModel(model)) =>
        /\ pc = "returned"
        /\ \A i \in 1..Len(lresp.tool_calls) :
            LET call == lresp.tool_calls[i]
                block == resp.content[Len(LeadingText) + i]
            IN  call.arguments.json = "invalid" =>
                    /\ block.type = "tool_use"
                    /\ block.input = [kind |-> "raw",
                                      raw |-> call.arguments.raw]

\* C12: a returned Response of a downstream response with tool calls is,
\* for a model that supports tool blocks, the optional leading text block
\* followed by one tool_use block per tool call in call order; for any
\* other model it has no tool_use block and exactly one text block, whose
\* text is the existing text (or nothing) followed by the rendering of
\* every tool call.
C12_ToolCallBlocks ==
    (ResponseReturned /\ lresp.tool_calls # <<>>) =>
        LET calls == lresp.tool_calls
            lead == Len(LeadingText)
        IN  IF IsClaudeModel(model)
            THEN /\ Len(resp.content) = lead + Len(calls)
                 /\ SubSeq(resp.content, 1, lead) = LeadingText
                 /\ \A i \in 1..Len(calls) :
                     LET block == resp.content[lead + i]
                     IN  /\ block.type = "tool_use"
                         /\ block.name = calls[i].name
                         /\ block.id = IF calls[i].id = Absent
                                       THEN "tool_generated"
                                       ELSE calls[i].id
                         /\ block.input.raw = calls[i].arguments.raw
            ELSE /\ Len(resp.content) = 1
                 /\ resp.content[1].type = "text"
                 /\ resp.content[1].text =
                        (IF lead = 1 THEN LeadingText[1].text ELSE <<>>)
                        \o ToolText(calls)

\* C12 witness: a response with text and two tool calls was converted for
\* a model without tool blocks
C12_Witness ==
    /\ ResponseReturned
    /\ ~IsClaudeModel(model)
    /\ lresp.content = "Hello"
    /\ Len(lresp.tool_calls) = 2

-----------------------------------------------------------------------------
(* Properties of parse_tool_result_content *)

\* C13: parse_tool_result_content is idempotent: called with the value it
\* returned it returns that value again, and a str argument is returned
\* unchanged.
C13_Idempotent ==
    [][task = "normalize" =>
        /\ (pc = "start" /\ pc' # "start" /\ arg'.kind = "str") => ret' = arg'
        /\ (pc = "returned" /\ pc' # "returned") =>
                (pc' = "returned again" /\ ret' = ret)]_vars

\* C14: for every argument parse_tool_result_content returns, without
\* raising, a str (never None) that does not end with whitespace.
C14_TotalAndTrimmed ==
    (task = "normalize" /\ pc # "start") =>
        /\ pc \in {"returned", "returned again"}
        /\ ret.kind = "str"
        /\ (ret.text = <<>> \/ ~IsSpace(ret.text[Len(ret.text)]))

-----------------------------------------------------------------------------
(* Properties of both mappers *)

\* C15: a call of convert_anthropic_to_litellm or of
\* convert_litellm_to_anthropic, whether it returns or raises, leaves the
\* module-level state (the request history, the model configuration)
\* unchanged.
C15_MappersPure ==
    [][(task = "request" \/ task = "response") =>
        /\ REQUEST_HISTORY' = REQUEST_HISTORY
        /\ USE_OPENAI_MODELS' = USE_OPENAI_MODELS]_vars

-----------------------------------------------------------------------------
(* Properties of concurrent streams *)

RECURSIVE AfterChunks(_, _)
\* the locals and events of an invocation after it read chunks
AfterChunks(f, chunks) ==
    IF chunks = <<>> THEN f
    ELSE AfterChunks(ProcessChunk(f, Head(chunks)), Tail(chunks))

\* the events an invocation emits when it runs alone, up to its position
AloneEvents(inv) ==
    LET f == AfterChunks([ts |-> InitTs, out |-> StartEvents(inv.model)],
                         inv.consumed)
    IN  IF inv.pc = "start" THEN <<>>
        ELSE IF inv.pc = "exhausted" THEN EndOfStream(f).out
        ELSE IF inv.pc = "failed" THEN FatalError(f, PairError).out
        ELSE f.out

\* C16: of two handle_streaming invocations whose chunk arrivals are
\* interleaved in any order, each has emitted exactly the events it emits
\* when it runs alone on the chunks it has read.
C16_StreamsIndependent ==
    task = "streams" =>
        \A i \in {1, 2} : Invocation(i).out = AloneEvents(Invocation(i))

\* C16 witness: two streams have ended after their chunks arrived in the
\* order 1, 2, 1, 2; one streamed text and a tool call, the other a tool
\* call only
C16_Witness ==
    /\ task = "streams"
    /\ peer.arrivals = <<1, 2, 1, 2>>
    /\ pc = "exhausted" /\ peer.pc = "returned"
    /\ consumed = <<TextChunk("Hi"), ToolChunk(HeaderDelta(0))>>
    /\ peer.consumed = <<ToolChunk(HeaderDelta(0)),
                         WithUsage(FinishChunk("tool_calls"), 5, 9)>>

-----------------------------------------------------------------------------
(* Properties of convert_anthropic_to_litellm: tool_choice, reasoning_effort *)

\* the tool_choice the request's directive is rewritten to
ChoiceTable(tool_choice) ==
    IF tool_choice.type = "auto" THEN [kind |-> "auto", name |-> Absent]
    ELSE IF tool_choice.type = "any" THEN [kind |-> "any", name |-> Absent]
    ELSE IF tool_choice.type = "tool" /\ tool_choice.name # Absent
    THEN [kind |-> "function", name |-> tool_choice.name]
    ELSE [kind |-> "auto", name |-> Absent]

\* C17 as stated: whenever the request carries a tool_choice, whatever
\* mapping it is, the downstream request has a tool_choice: 'auto' for
\* type auto, 'any' for type any, the named function for type tool with
\* a name, and 'auto' for every other directive.
C17_AnyDirective ==
    (RequestConverted /\ req.tool_choice.given) =>
        lreq.tool_choice = ChoiceTable(req.tool_choice)

\* C17 amended: whenever the request carries a non-empty tool_choice
\* mapping, the downstream request has a tool_choice: 'auto' for type
\* auto, 'any' for type any, the named function for type tool with a
\* name, and 'auto' for every other directive; for an empty mapping, as
\* for no tool_choice, the downstream request has no tool_choice.
C17_ToolChoiceTable ==
    RequestConverted =>
        IF req.tool_choice.given /\ ~req.tool_choice.empty
        THEN lreq.tool_choice = ChoiceTable(req.tool_choice)
        ELSE lreq.tool_choice.kind = "absent"

\* C17 witness: a request whose tool_choice has type tool and no name was
\* converted, and the downstream tool_choice is 'auto'
C17_Witness ==
    /\ RequestConverted
    /\ req.tool_choice.given /\ ~req.tool_choice.empty
    /\ req.tool_choice.type = "tool"
    /\ req.tool_choice.name = Absent
    /\ lreq.tool_choice.kind = "auto"

\* the default rule: 'high' exactly when the model name without its
\* provider prefix contains "o3-" or "o1"
DefaultEffort(m) ==
    IF \E i \in 1..Len(CleanModel(m)) : CleanModel(m)[i] \in {"o3-", "o1"}
    THEN "high" ELSE Absent

-----------------------------------------------------------------------------
(* Properties of handle_streaming: the start and the first tool call *)

\* C19: before it reads a chunk, and so for an empty chunk sequence and
\* for a chunk source that fails on its first read as well, a stream has
\* emitted message_start (with the model of the request and zero usage),
\* content_block_start for index 0 of type text, and ping, in that order,
\* and these stay its first three events.
C19_StartEvents ==
    task = "stream" =>
        IF pc = "start" THEN out = <<>> /\ consumed = <<>>
        ELSE /\ Len(out) >= 3
             /\ out[1].type = "message_start"
             /\ out[1].model = model
             /\ out[1].output_tokens = 0
             /\ out[2].type = "content_block_start"
             /\ out[2].index = 0
             /\ out[2].block_type = "text"
             /\ out[2].text = <<>>
             /\ out[3].type = "ping"
             /\ (pc = "loop" /\ consumed = <<>>) => Len(out) = 3

\* C19 witness: the chunk source failed on its first read, after the
\* three events
C19_Witness ==
    /\ task = "stream"
    /\ pc = "failed"
    /\ consumed = <<>>
    /\ Len(out) > 3

\* the positions of the content_block_start events of tool_use blocks
ToolStarts == {i \in Starts : out[i].block_type = "tool_use"}

\* the content_block_stop events for index 0 before position i
TextStopsBefore(i) == {k \in Stops : k < i /\ out[k].index = 0}

\* C20: when the first tool_use content_block_start of a stream is
\* emitted, exactly one content_block_stop for index 0 has been emitted
\* before it.
C20_TextClosedFirst ==
    task = "stream" =>
        \A i \in ToolStarts :
            (\A j \in ToolStarts : i <= j) =>
                Cardinality(TextStopsBefore(i)) = 1

\* C20 witness: the first chunk of a stream carried both text and a tool
\* call, and the tool block was opened
C20_Witness ==
    /\ task = "stream"
    /\ ToolStarts # {}
    /\ Len(consumed) = 1
    /\ consumed[1].content = "Hi"
    /\ consumed[1].tool_calls # <<>>

-----------------------------------------------------------------------------
(* Properties of handle_streaming: tool blocks and the closing sequence *)

RECURSIVE DeltasOf(_)
\* the tool-call deltas "for tool_call in delta_tool_calls" has run on, in
\* arrival order
DeltasOf(chunks) ==
    IF chunks = <<>> THEN <<>>
    ELSE (IF ChunkRaises(Head(chunks)) \/ Head(chunks).choices # "one"
          THEN <<>> ELSE Head(chunks).tool_calls)
         \o DeltasOf(Tail(chunks))

\* C21: the n-th tool_use content_block_start of a stream carries block
\* index n, whatever call indices the downstream uses.
C21_ToolBlockIndices ==
    task = "stream" =>
        \A i \in ToolStarts :
            out[i].index = Cardinality({k \in ToolStarts : k <= i})

\* C21 witness: three tool blocks were opened for the call indices 5, 0, 1
C21_Witness ==
    /\ task = "stream"
    /\ Cardinality(ToolStarts) = 3
    /\ LET deltas == DeltasOf(consumed)
       IN  /\ Len(deltas) = 3
           /\ CurrentIndex(deltas[1]) = 5
           /\ CurrentIndex(deltas[2]) = 0
           /\ CurrentIndex(deltas[3]) = 1

\* the stream read argument fragments of the calls 0 and 1 only
InterleavedCalls ==
    /\ task = "stream"
    /\ \A i \in 1..Len(consumed) :
        IsFragmentChunk(consumed[i], 0) \/ IsFragmentChunk(consumed[i], 1)
    /\ \A i \in 1..Len(consumed) : consumed[i].tool_calls[1].has_index

\* the position of the first delta of call idx
FirstDelta(deltas, idx) ==
    CHOOSE k \in 1..Len(deltas) :
        /\ CurrentIndex(deltas[k]) = idx
        /\ \A j \in 1..(k - 1) : CurrentIndex(deltas[j]) # idx

\* the block of call idx: calls are numbered from 1 as first observed
BlockOf(deltas, idx) ==
    Cardinality({CurrentIndex(deltas[j]) :
                    j \in 1..FirstDelta(deltas, idx)})

RECURSIVE FragmentsOf(_, _)
\* the argument fragments received for call idx, concatenated
FragmentsOf(deltas, idx) ==
    IF deltas = <<>> THEN <<>>
    ELSE (IF CurrentIndex(Head(deltas)) = idx
          THEN Str(Arguments(Head(deltas))) ELSE <<>>)
         \o FragmentsOf(Tail(deltas), idx)

RECURSIVE PartialJsonOn(_, _)
\* the partial_json deltas emitted on block b, concatenated
PartialJsonOn(events, b) ==
    IF events = <<>> THEN <<>>
    ELSE (IF Head(events).delta_type = "input_json_delta"
             /\ Head(events).index = b
          THEN Head(events).text ELSE <<>>)
         \o PartialJsonOn(Tail(events), b)

\* C22: when the fragments of the calls 0 and 1 arrive in any order, one
\* tool_use block is opened per distinct call, and the partial_json deltas
\* on a call's block concatenate to the fragments received for that call.
C22_InterleavedCalls ==
    InterleavedCalls =>
        LET deltas == DeltasOf(consumed)
            calls == {CurrentIndex(deltas[k]) : k \in 1..Len(deltas)}
        IN  /\ Cardinality(ToolStarts) = Cardinality(calls)
            /\ \A idx \in calls :
                PartialJsonOn(out, BlockOf(deltas, idx)) =
                    FragmentsOf(deltas, idx)

IsJsonDelta(e) == e.delta_type = "input_json_delta"

RECURSIVE FragmentTexts(_)
\* the non-empty argument fragments of the deltas, in arrival order
FragmentTexts(deltas) ==
    IF deltas = <<>> THEN <<>>
    ELSE (IF Arguments(Head(deltas)) \notin {None, ""}
          THEN <<Str(Arguments(Head(deltas)))>> ELSE <<>>)
         \o FragmentTexts(Tail(deltas))

\* C23: the input_json_delta events of a stream are, in order, one per
\* non-empty argument fragment of the deltas processed, each carrying its
\* fragment verbatim whether or not the fragment parses as JSON, and each
\* on the block opened last.
C23_FragmentsVerbatim ==
    task = "stream" =>
        LET sent == SelectSeq(out, IsJsonDelta)
        IN  /\ [k \in 1..Len(sent) |-> sent[k].text] =
                    FragmentTexts(DeltasOf(consumed))
            /\ \A i \in 1..Len(out) :
                IsJsonDelta(out[i]) =>
                    \E s \in ToolStarts :
                        /\ s < i
                        /\ out[s].index = out[i].index
                        /\ \A r \in ToolStarts : r < i => r <= s

\* C23 witness: a fragment that is no JSON document, a delta without
\* fragment and a fragment that is one were processed, and two
\* input_json_delta events were sent
C23_Witness ==
    /\ task = "stream"
    /\ Len(SelectSeq(out, IsJsonDelta)) = 2
    /\ LET deltas == DeltasOf(consumed)
       IN  /\ Len(deltas) = 3
           /\ ~ParsesAsJson(Arguments(deltas[1]))
           /\ Arguments(deltas[1]) # ""
           /\ Arguments(deltas[2]) = ""
           /\ ParsesAsJson(Arguments(deltas[3]))

\* content_block_stop for the blocks 1..n, in ascending order
ToolStops(n) == [i \in 1..n |-> BlockStop(i)]

\* no content_block_stop for index 0 precedes a tool_use block
TextOpenAtFinish == \A s \in ToolStarts : TextStopsBefore(s) = {}

\* C24: a stream that ended on a finish reason ends with
\* content_block_stop for the tool blocks 1..last in ascending order,
\* content_block_stop(0) if block 0 was not closed before, message_delta
\* with the mapped stop reason, message_stop and [DONE]; no terminal event
\* and no content_block_stop of a tool block comes before them.
C24_ClosingSequence ==
    (task = "stream" /\ pc = "returned") =>
        LET closing ==
                ToolStops(Cardinality(ToolStarts))
                \o (IF TextOpenAtFinish THEN <<BlockStop(0)>> ELSE <<>>)
                \o <<MessageDelta(
                        FinishReasonTable(
                            consumed[Len(consumed)].finish_reason),
                        ts.output_tokens),
                     MessageStop, Done>>
            k == Len(out) - Len(closing)
        IN  /\ k >= 0
            /\ SubSeq(out, k + 1, Len(out)) = closing
            /\ \A i \in 1..k :
                /\ out[i].type \notin
                        {"message_delta", "message_stop", "[DONE]"}
                /\ out[i].type = "content_block_stop" => out[i].index = 0

\* an invocation before its first chunk
StartFrame == [ts |-> InitTs, out |-> StartEvents(model)]

\* the chunk reaches "if finish_reason and not has_sent_stop_reason" with
\* a finish reason
FinishProcessed(c) ==
    /\ ~ChunkRaises(c)
    /\ c.choices = "one"
    /\ Truthy(c.finish_reason)

\* C25: a chunk whose finish reason is processed is the last chunk
\* consumed; from then on no chunk is consumed and no event is emitted,
\* [DONE] stays the last event, and the events are those of the chunks
\* consumed, whatever chunks the source still holds.
C25_FinishEndsStream ==
    /\ [](task = "stream" =>
            /\ \A i \in 1..Len(consumed) :
                FinishProcessed(consumed[i]) =>
                    i = Len(consumed) /\ pc = "returned"
            /\ pc = "returned" =>
                /\ out[Len(out)] = Done
                /\ EventsOf("[DONE]") = {Len(out)}
                /\ out = AfterChunks(StartFrame, consumed).out)
    /\ [][(task = "stream" /\ pc = "returned") =>
            /\ pc' = "returned"
            /\ consumed' = consumed
            /\ out' = out]_vars

\* C25 witness: the stream ended on its first chunk; a tool-call chunk and
\* a chunk with text, a second finish reason and usage followed and were
\* left unread
C25_Witness ==
    /\ task = "stream" /\ pc = "returned"
    /\ Len(consumed) = 1
    /\ Len(unread) = 2
    /\ unread[1].tool_calls # <<>>
    /\ Truthy(unread[2].finish_reason)
    /\ unread[2].content = " there"
    /\ unread[2].has_usage

\* C26: for chunks without a finish reason, the events of a stream whose
\* source ended are the events of the same chunks followed by one chunk
\* that carries finish reason stop and nothing else.
C26_EndLikeStop ==
    (/\ task = "stream" /\ pc = "exhausted"
     /\ \A i \in 1..Len(consumed) : ~Truthy(consumed[i].finish_reason)) =>
        out = AfterChunks(StartFrame,
                          Append(consumed, FinishChunk("stop"))).out

WellFormed(c) == ~ChunkRaises(c)

\* C27: a chunk whose processing raises emits nothing and leaves the loop
\* running, and the events of a stream (the usage counts apart) are the
\* events of its well-formed chunks alone, the terminal sequence included.
C27_BadChunkSkipped ==
    /\ [](task = "stream" /\ pc \in {"loop", "returned", "exhausted"} =>
            LET f == AfterChunks(StartFrame, SelectSeq(consumed, WellFormed))
                g == IF pc = "exhausted" THEN EndOfStream(f) ELSE f
            IN  WithoutTokens(out) = WithoutTokens(g.out))
    /\ [][(/\ task = "stream" /\ pc = "loop"
           /\ consumed' # consumed
           /\ ChunkRaises(consumed'[Len(consumed')])) =>
            /\ out' = out
            /\ pc' = "loop"]_vars

\* C27 witness: a stream consumed a chunk that raised, then a text chunk
\* whose delta it sent, then a finish chunk, and ended
C27_Witness ==
    /\ task = "stream" /\ pc = "returned"
    /\ Len(consumed) = 3
    /\ ChunkRaises(consumed[1])
    /\ IsTextChunk(consumed[2])
    /\ IsFinishChunk(consumed[3], "stop")
    /\ \E i \in 1..Len(out) : out[i].delta_type = "text_delta"
    /\ out[Len(out)] = Done

\* completion_tokens of the last chunk that carries usage, 0 without one
LastUsage(chunks) ==
    LET with == {i \in 1..Len(chunks) : chunks[i].has_usage}
    IN  IF with = {} THEN 0
        ELSE chunks[CHOOSE i \in with : \A j \in with : j <= i]
                .completion_tokens

\* C28: the message_delta of the terminal sequence carries the
\* completion_tokens of the last chunk of the downstream stream that
\* carries usage, 0 when none does.
C28_FinalUsage ==
    (task = "stream" /\ pc \in {"returned", "exhausted"}) =>
        out[Len(out) - 2].output_tokens = LastUsage(consumed \o unread)

\* the tool calls of the downstream response raise for no other reason
\* than their id
OtherwiseValidCalls ==
    \A i \in 1..Len(lresp.tool_calls) :
        /\ lresp.tool_calls[i].name # None
        /\ lresp.tool_calls[i].arguments.json # "other"

\* C29: every tool_use content_block_start of a stream carries a non-null
\* id, and a downstream response with tool calls becomes, for a model that
\* supports tool blocks, a Response whose tool_use blocks carry non-null
\* ids, also when a call's id is present but null.
C29_ToolIdsNeverNull ==
    /\ task = "stream" => \A i \in ToolStarts : out[i].id # None
    /\ (ResponseExtracted /\ OtherwiseValidCalls /\ IsClaudeModel(model)) =>
            /\ pc = "returned"
            /\ \A i \in 1..Len(resp.content) :
                resp.content[i].type = "tool_use" =>
                    resp.content[i].id # None

\* Fragment, with the result text of parse_tool_result_content
NormalizedFragment(block) ==
    IF block.type = "text" THEN <<block.text>>
    ELSE IF block.type = "tool_result"
    THEN <<<<"Tool result for", " ", block.tool_use_id, ":", "\n">>
           \o parse_tool_result_content(block.content).text>>
    ELSE <<>>

RECURSIVE NormalizedFragments(_)
NormalizedFragments(blocks) ==
    IF blocks = <<>> THEN <<>>
    ELSE NormalizedFragment(Head(blocks))
         \o NormalizedFragments(Tail(blocks))

\* C30: in the message made of a user message with tool_result blocks,
\* the text after "Tool result for {id}:" is
\* parse_tool_result_content(content), for every content value.
C30_FlattenedByNormalizer ==
    RequestConverted =>
        \A i \in 1..Len(req.messages) :
            LET msg == req.messages[i]
                got == lreq.messages[SystemCount + i]
            IN  (msg.kind = "blocks" /\ msg.role = "user"
                 /\ HasToolResult(msg.blocks)) =>
                    got.text =
                        Strip(JoinLines(NormalizedFragments(msg.blocks)))

-----------------------------------------------------------------------------
(* Properties of the tool-call shape and of the error classification *)

\* the Response holds a tool_use block
HasToolUse(content) ==
    \E i \in 1..Len(content) : content[i].type = "tool_use"

\* C31: the stream opens tool_use blocks only for a model for which the
\* response mapper builds tool_use blocks, that is a claude- model; for
\* any other model neither of them emits a tool_use block.
C31_SameToolShape ==
    /\ (task = "response" /\ pc = "returned") =>
            (HasToolUse(resp.content) => IsClaudeModel(model))
    /\ task = "stream" => (ToolStarts # {} => IsClaudeModel(model))

\* the keyword classes of the specification, in their order
ErrorClasses ==
    <<[words |-> {{"overloaded"}},
       message |-> <<"Anthropic API is currently overloaded. Please try again in a few minutes.">>],
      [words |-> {{"rate limit"}, {"rate_limit"}, {"429"}},
       message |-> <<"Rate limit exceeded. Please try again in a few minutes.">>],
      [words |-> {{"timeout"}, {"timed out"}},
       message |-> <<"The request timed out. The API server may be experiencing high load. Please try again.">>],
      [words |-> {{"connectivity"}, {"connection"}},
       message |-> <<"Connection issue detected. Please check your internet connection and try again.">>],
      [words |-> {{"auth"}, {"authentication"}, {"key", "invalid"}},
       message |-> <<"Authentication error. Please check your API key configuration.">>]>>

\* the error text matches class i: it holds all the words of one of the
\* class's alternatives
MatchesClass(e, i) ==
    \E alternative \in ErrorClasses[i].words : alternative \subseteq e.words

\* the classes the error text matches
MatchedClasses(e) == {i \in 1..Len(ErrorClasses) : MatchesClass(e, i)}

\* C32: a conversion that fails raises an error whose message is that of
\* the earliest keyword class its error text matches, or "Error: " and the
\* raw error text when it matches none, and whose status code is the
\* error's own or 500.
C32_FirstClassWins ==
    (task = "response" /\ pc = "raised") =>
        LET e == resp.exception
            matched == MatchedClasses(e)
        IN  /\ matched # {} =>
                \E i \in matched :
                    /\ \A j \in matched : i <= j
                    /\ resp.detail = ErrorClasses[i].message
            /\ matched = {} => resp.detail = <<"Error:", " ", e.raw>>
            /\ resp.status_code =
                    IF e.has_status_code THEN e.status_code ELSE 500

\* C32 witness: a conversion failed with an error text of the classes
\* rate limit and connection that carries the status code 429
C32_Witness ==
    /\ task = "response" /\ pc = "raised"
    /\ MatchedClasses(resp.exception) = {2, 4}
    /\ resp.status_code = 429
    /\ resp.detail = ErrorClasses[2].message

-----------------------------------------------------------------------------
(* Properties of the model-name resolution and of the model settings *)

\* a handler of the models task has returned from the given call
Served(call) == task = "models" /\ pc = "served" /\ arg.call = call

\* C33: the two copies of the model-name rewriting return the same resolved
\* name: under every configuration reached, for every model name, and for
\* the name each endpoint has just resolved with its own copy
C33_SameResolution ==
    /\ task = "models" =>
        \A name \in ModelNames :
            MessagesRequest_validate_model(
                name, USE_OPENAI_MODELS, BIG_MODEL, SMALL_MODEL)
            = TokenCountRequest_validate_model(
                name, USE_OPENAI_MODELS, BIG_MODEL, SMALL_MODEL)
    /\ Served("messages") =>
        ret.model = TokenCountRequest_validate_model(
                        arg.model, USE_OPENAI_MODELS, BIG_MODEL, SMALL_MODEL)
    /\ Served("count_tokens") =>
        ret.request_model = MessagesRequest_validate_model(
                        arg.model, USE_OPENAI_MODELS, BIG_MODEL, SMALL_MODEL)

\* C33 witness: count_tokens resolved an anthropic/ sonnet name to the big
\* model while model swapping is on
C33_Witness ==
    /\ Served("count_tokens")
    /\ USE_OPENAI_MODELS
    /\ arg.model = <<"anthropic/", "claude-", "3-7-", "sonnet", "-20240229">>
    /\ ret.request_model = <<"openai/", "gpt-4o">>
    /\ BIG_MODEL = <<"gpt-4o">>

\* C39: under every configuration selectable in the UI, count_tokens,
\* which resolves the model name twice, targets the model a single
\* resolution gives
C39_Idempotent ==
    (/\ Served("count_tokens")
     /\ BIG_MODEL \in AvailableModels
     /\ SMALL_MODEL \in AvailableModels)
    => ret.model = ret.request_model

\* "claude" in m.lower()
ContainsClaude(m) == \E i \in DOMAIN m : m[i] \in {"claude-", "Claude-"}

\* C40: USE_OPENAI_MODELS is false exactly when both BIG_MODEL and
\* SMALL_MODEL contain "claude" in any case, and an update_models call
\* that returns an error leaves the three settings as they were
C40_FlagFollowsModels ==
    /\ [](task = "models" =>
            (~USE_OPENAI_MODELS
             <=> (ContainsClaude(BIG_MODEL) /\ ContainsClaude(SMALL_MODEL))))
    /\ [][(/\ task = "models"
           /\ arg'.call = "update_models"
           /\ ret'.status = "error")
          => UNCHANGED <<BIG_MODEL, SMALL_MODEL, USE_OPENAI_MODELS>>]_vars

\* C40 witness: an update to two Claude models was accepted and switched
\* model swapping off, and a later update to gpt-4o was rejected
C40_Witness ==
    /\ Served("update_models")
    /\ ret.status = "error"
    /\ arg.big_model = <<"gpt-4o">>
    /\ BIG_MODEL = <<"anthropic/", "claude-", "3-", "haiku", "-20240307">>
    /\ SMALL_MODEL = BIG_MODEL
    /\ ~USE_OPENAI_MODELS

-----------------------------------------------------------------------------
(* Properties of the max_tokens ceiling *)

\* C38: for a request whose resolved model is of the anthropic/ family the
\* downstream max_tokens is the request's max_tokens, the 16384 ceiling is
\* not applied
C38_AnthropicUncapped ==
    (RequestConverted /\ StartsWith(req.model, "anthropic/")) =>
        lreq.max_tokens = req.max_tokens

-----------------------------------------------------------------------------
(* Properties of handle_streaming: deltas and open blocks *)

RECURSIVE TextOf(_)
\* the texts of the text_delta events, concatenated
TextOf(events) ==
    IF events = <<>> THEN <<>>
    ELSE (IF Head(events).delta_type = "text_delta"
          THEN Head(events).text ELSE <<>>)
         \o TextOf(Tail(events))

RECURSIVE ReceivedText(_)
\* the non-empty text deltas of the chunks, up to and including the first
\* chunk that carries a tool-call delta
ReceivedText(chunks) ==
    IF chunks = <<>> THEN <<>>
    ELSE (IF Head(chunks).content \notin {None, ""}
          THEN <<Head(chunks).content>> ELSE <<>>)
         \o (IF Head(chunks).tool_calls # <<>> THEN <<>>
             ELSE ReceivedText(Tail(chunks)))

\* C34: the text of the text_delta events of a stream, concatenated, is the
\* text received up to and including the chunk with the first tool-call
\* delta, each piece once and in arrival order; text received later is not
\* emitted. A chunk that is skipped counts for nothing.
C34_TextBeforeTools ==
    (task = "stream" /\ pc # "start") =>
        TextOf(out) = ReceivedText(SelectSeq(consumed, WellFormed))

\* C34 witness: "Hi", then "Hi" together with the first tool-call delta,
\* then " there", which is not emitted
C34_Witness ==
    /\ task = "stream"
    /\ Len(consumed) = 3
    /\ IsTextChunk(consumed[1]) /\ consumed[1].content = "Hi"
    /\ consumed[2].content = "Hi" /\ consumed[2].tool_calls # <<>>
    /\ IsTextChunk(consumed[3]) /\ consumed[3].content = " there"
    /\ TextOf(out) = <<"Hi", "Hi">>

Deltas == EventsOf("content_block_delta")

\* C35: every content_block_delta carries the index of a block that was
\* started before it and is not stopped before it; a text_delta carries
\* index 0 and an input_json_delta an index >= 1. Chunks whose processing
\* raises are among the chunks read.
C35_DeltasOnOpenBlocks ==
    task = "stream" =>
        \A d \in Deltas :
            /\ \E i \in Starts : i < d /\ out[i].index = out[d].index
            /\ \A j \in Stops : out[j].index = out[d].index => d < j
            /\ out[d].delta_type = "text_delta" => out[d].index = 0
            /\ out[d].delta_type = "input_json_delta" => out[d].index >= 1

\* C35 witness: a tool block was opened, the next chunk raised, and the
\* fragment of the third chunk was sent on the open block
C35_Witness ==
    /\ task = "stream" /\ pc = "loop"
    /\ Len(consumed) = 3
    /\ consumed[1] = ToolChunk(HeaderDelta(0))
    /\ ChunkRaises(consumed[2])
    /\ consumed[3] = ToolChunk(FragmentDelta(0))
    /\ out[Len(out)].delta_type = "input_json_delta"
    /\ out[Len(out)].index = 1

\* the content_block_stop events of the tool blocks
ToolStopEvents == {j \in Stops : out[j].index >= 1}

\* C36: while chunks are being read no tool block is stopped; the stops
\* of the tool blocks come after every tool_use start, next to one
\* another, and carry the indices 1, 2, ..., n of the n blocks opened.
C36_ToolBlocksClosedTogether ==
    task = "stream" =>
        /\ pc = "loop" => ToolStopEvents = {}
        /\ \A j \in ToolStopEvents :
            /\ \A i \in ToolStarts : i < j
            /\ out[j].index = Cardinality({k \in ToolStopEvents : k <= j})
            /\ \A k \in ToolStopEvents :
                \A e \in k..j : e \in ToolStopEvents
        /\ ToolStopEvents # {} =>
            Cardinality(ToolStopEvents) = Cardinality(ToolStarts)

\* C36 witness: the second tool call opened while the first block was
\* open, and the finish reason of the third chunk closed the blocks 1
\* and 2
C36_Witness ==
    /\ task = "stream" /\ pc = "returned"
    /\ Len(consumed) = 3
    /\ consumed[1] = ToolChunk(HeaderDelta(0))
    /\ consumed[2] = ToolChunk(HeaderDelta(1))
    /\ Cardinality(ToolStarts) = 2
    /\ Cardinality(ToolStopEvents) = 2

\* C37: a Response with stop_reason tool_use has a tool_use block in its
\* content, and a message_delta with stop reason tool_use comes after a
\* tool_use block that was opened and closed.
C37_ToolUseHasBlock ==
    /\ ResponseReturned =>
        (resp.stop_reason = "tool_use" => HasToolUse(resp.content))
    /\ task = "stream" =>
        \A d \in EventsOf("message_delta") :
            out[d].stop_reason = "tool_use" =>
                \E i \in ToolStarts :
                    \E j \in ToolStopEvents :
                        i < j /\ j < d /\ out[j].index = out[i].index

=============================================================================
